---------------------------- MODULE Spec2Model ----------------------------
(***************************************************************************)
(* A model of dts-up, a bundler of TypeScript declaration files.           *)
(*                                                                         *)
(* Two phases of Graph::build are modelled:                                *)
(*   - Graph::generate, the concurrent phase: N workers claim module ids   *)
(*     from a shared LIFO, parse and analyse them and post NewDependency / *)
(*     NewModule messages on a bounded channel that the driver drains      *)
(*     (specifications Spec and FairSpec);                                 *)
(*   - the sequential phase on the driver: sort_modules, link_export_all,  *)
(*     link_modules, include_with_tree_shaking (specification BuildSpec).  *)
(* The source files are values of the model: a file is a sequence of       *)
(* top-level statements, and the analyzer is an operator over it.          *)
(***************************************************************************)
EXTENDS Naturals, Integers, Sequences, FiniteSets, TLC

----------------------------------------------------------------------------
(* Generic helpers over finite maps and sequences.                         *)

None == "none"

EmptyMap == <<>>

Put(f, k, v) == [x \in (DOMAIN f) \cup {k} |-> IF x = k THEN v ELSE f[x]]

Range(s) == {s[i] : i \in DOMAIN s}

Last(s) == s[Len(s)]

Front(s) == SubSeq(s, 1, Len(s) - 1)

\* All the orders in which a hash container may iterate over the set S.
Orderings(S) ==
  {p \in [1..Cardinality(S) -> S] : \A i, j \in 1..Cardinality(S) : p[i] = p[j] => i = j}

----------------------------------------------------------------------------
(* Module ids and raw sources.  A module id is the list of the path        *)
(* components of the file below the working directory, the `.d.ts` suffix  *)
(* left implicit; a raw source is the list of components as written in an  *)
(* import or export statement ("./a" is <<".", "a">>).                     *)

NoSrc == <<>>

dirname(id) == Front(id)

RECURSIVE path_resolve(_, _)
path_resolve(dir, src) ==
  IF src = <<>> THEN dir
  ELSE IF Head(src) = "." THEN path_resolve(dir, Tail(src))
  ELSE IF Head(src) = ".." THEN path_resolve(IF dir = <<>> THEN dir ELSE Front(dir), Tail(src))
  ELSE path_resolve(Append(dir, Head(src)), Tail(src))

\* resolve_id(nodejs_path::resolve!(dirname(module.id), source))
resolve_source(id, src) == path_resolve(dirname(id), src)

\* utils::resolve_id on a path written out as the sequence of its
\* characters.
DTs == <<".", "d", ".", "t", "s">>

\* str::ends_with
ends_with(id, suffix) ==
  /\ Len(id) >= Len(suffix)
  /\ SubSeq(id, Len(id) - Len(suffix) + 1, Len(id)) = suffix

resolve_id_push(id) == id \o DTs

resolve_id(id) ==
  IF ends_with(id, DTs) THEN id
  ELSE IF ends_with(id, <<".", "d">>) THEN id \o <<".", "t", "s">>
  ELSE id \o DTs

----------------------------------------------------------------------------
(* Top-level statements of a declaration file.  Every statement is a       *)
(* record of the same shape; the fields a kind does not use are empty.     *)
(*   kind  "Import"            import { orig as local, ... } from src      *)
(*         "Decl"              interface name { p: refs[1]; ... }          *)
(*         "ExportDecl"        export interface name { ... }               *)
(*         "ExportNamed"       export { orig as exported, ... } [from src] *)
(*         "ExportAll"         export * from src                           *)
(*         "ExportDefaultDecl" export default interface name { ... }       *)
(*         "ExportNamespace"   export * as name from src                   *)
(* An import specifier with orig "default" is a default import, with orig  *)
(* "*" a namespace import.                                                 *)
(* A declaration has the kind of what it declares in `decl` ("interface",  *)
(* "type", "enum", "class", "function", "var", "namespace"), the names of  *)
(* its type parameters in `type_params`, the identifiers its property      *)
(* types (the type itself, for an alias or a variable) refer to in `refs`, *)
(* and in `nested` the identifiers that occur deeper in its types, each    *)
(* with the place it occurs in: "extends" (interface A extends N),         *)
(* "array" (N[]), "union" (N | M, N & M), "tuple" ([N, M]) and "literal"   *)
(* ({ p: N }).                                                             *)

Stmt(kind, src, specs, name, refs) ==
  [kind |-> kind, src |-> src, specs |-> specs, name |-> name, refs |-> refs,
   decl |-> IF kind \in {"Decl", "ExportDecl", "ExportDefaultDecl"} THEN "interface" ELSE None,
   type_params |-> <<>>, nested |-> <<>>]

TypeRef(via, name) == [via |-> via, name |-> name]

\* a declaration of any kind, exported (kind "ExportDecl") or not ("Decl")
Declaration(kind, decl, name, type_params, refs, nested) ==
  [Stmt(kind, NoSrc, <<>>, name, refs) EXCEPT !.decl = decl, !.type_params = type_params,
                                             !.nested = nested]

Sp(orig, as) == [orig |-> orig, as |-> as]

ImportDecl(src, specs) == Stmt("Import", src, specs, None, <<>>)
InterfaceDecl(name, refs) == Stmt("Decl", NoSrc, <<>>, name, refs)
ExportInterface(name, refs) == Stmt("ExportDecl", NoSrc, <<>>, name, refs)
ExportNamed(src, specs) == Stmt("ExportNamed", src, specs, None, <<>>)
ExportAll(src) == Stmt("ExportAll", src, <<>>, None, <<>>)
ExportDefaultInterface(name, refs) == Stmt("ExportDefaultDecl", NoSrc, <<>>, name, refs)
ExportNamespace(src, name) == Stmt("ExportNamespace", src, <<>>, name, <<>>)


----------------------------------------------------------------------------
(* Module::pre_analyze_sub_modules: the sources of the import, export-from *)
(* and export-all statements, each resolved against the module's id.       *)

HasSource(st) ==
  \/ st.kind = "Import"
  \/ st.kind = "ExportAll"
  \/ st.kind = "ExportNamespace"
  \/ st.kind = "ExportNamed" /\ st.src # NoSrc

src_to_resolved_id(id, body) ==
  [s \in {st.src : st \in {x \in Range(body) : HasSource(x)}} |-> resolve_source(id, s)]

pre_analyze_sub_modules(id, body) ==
  {resolve_source(id, st.src) : st \in {x \in Range(body) : HasSource(x)}}

----------------------------------------------------------------------------
(* ModuleAnalyzer.  Marks are the keys of the process-wide SymbolBox:      *)
(* new_mark returns the number of keys allocated so far, and key 0 is      *)
(* consumed when the box is created.  az.marks is that number of keys.     *)

NoMark == 0

NewAnalyzer(marks) ==
  [marks |-> marks, defs |-> EmptyMap, imports |-> EmptyMap, exports |-> <<>>,
   statement_context |-> <<>>, current_import_index |-> 0, scope |-> <<>>,
   panicked |-> FALSE]

NewContext ==
  [is_import |-> FALSE, is_export |-> FALSE, is_export_decl |-> FALSE,
   reads |-> {}, mark |-> NoMark]

\* The scope stack: az.defs holds the definitions of the top-level scope,
\* the first of the stack, and az.scope the scopes pushed above it.
NewScope(kind) == [kind |-> kind, definitions |-> EmptyMap]

push_scope(az, scope) == [az EXCEPT !.scope = Append(@, scope)]

pop_scope(az) == [az EXCEPT !.scope = Front(@)]

pop_scope_on_type_param(az) ==
  IF az.scope # <<>> /\ Last(az.scope).kind = "TsTypeParameter" THEN pop_scope(az) ELSE az

\* the definitions of the scope pushed last
current_definitions(az) ==
  IF az.scope = <<>> THEN az.defs ELSE Last(az.scope).definitions

\* scope definitions first (innermost to outermost), then the imports
get_mark_by_name(az, name) ==
  LET holders == {i \in DOMAIN az.scope : name \in DOMAIN az.scope[i].definitions}
  IN  IF holders # {}
      THEN az.scope[CHOOSE i \in holders : \A j \in holders : j <= i].definitions[name]
      ELSE IF name \in DOMAIN az.defs THEN az.defs[name]
      ELSE IF name \in DOMAIN az.imports THEN az.imports[name].mark
      ELSE NoMark

\* Scope::add_variable_definition for an interface: the first definition of
\* a name stays, a second interface of that name leaves the scope as it is.
add_variable_definition(defs, name, mark) ==
  IF name \in DOMAIN defs THEN defs ELSE Put(defs, name, mark)

\* get_current_scope_mut().add_variable_definition(..): the definition is
\* made in the scope pushed last
define_in_current_scope(az, name, mark) ==
  IF az.scope = <<>>
  THEN [az EXCEPT !.defs = add_variable_definition(@, name, mark)]
  ELSE [az EXCEPT !.scope[Len(az.scope)].definitions = add_variable_definition(@, name, mark)]

\* add_variable_read over the identifier references of a declaration
ReadsOf(az, refs) ==
  {get_mark_by_name(az, refs[i]) : i \in DOMAIN refs} \ {NoMark}

\* visit_mut_ts_type: the places of a type whose identifier reaches
\* add_variable_read.  A TsTypeRef does, and so does the identifier of an
\* extends clause; the members of a type literal are visited; the element
\* type of an array has its children visited but is not visited itself, and
\* the arms of unions, intersections and tuples are empty.
VisitedPlaces == {"extends", "literal"}

AllPlaces == {"extends", "literal", "array", "union", "tuple"}

\* the identifiers of the types of a declaration that are read
visited_names(st, places) ==
  st.refs \o [i \in 1..Len(SelectSeq(st.nested, LAMBDA r : r.via \in places)) |->
                SelectSeq(st.nested, LAMBDA r : r.via \in places)[i].name]

\* visit_mut_ts_type_param_decl: a TsTypeParameter scope is pushed and
\* every parameter is defined in it with a fresh mark (no type parameters,
\* no visit)
visit_mut_ts_type_param_decl(az, params) ==
  IF params = <<>> THEN az
  ELSE LET definitions ==
             [name \in Range(params) |->
                az.marks + (CHOOSE i \in DOMAIN params :
                              /\ params[i] = name
                              /\ \A j \in DOMAIN params : params[j] = name => i <= j) - 1]
       IN  [az EXCEPT !.marks = @ + Len(params),
                      !.scope = Append(@, [kind |-> "TsTypeParameter",
                                           definitions |-> definitions])]

\* visit_mut_ts_interface_decl: the type parameters are visited first, then
\* a fresh mark is made for the statement and the name is defined in the
\* current scope, which is the scope of the type parameters when there are
\* any; the reads of the extends clauses and of the body are collected in
\* a TypeScope of their own, and the scope of the type parameters is popped.
visit_mut_ts_interface_decl(az, ctxt, st) ==
  LET az0 == visit_mut_ts_type_param_decl(az, st.type_params)
      new_mark == az0.marks
      az1 == define_in_current_scope([az0 EXCEPT !.marks = @ + 1], st.name, new_mark)
  IN  [az |-> pop_scope_on_type_param(az1),
       ctxt |-> [ctxt EXCEPT !.mark = new_mark,
                             !.reads = ReadsOf(az1, visited_names(st, VisitedPlaces))]]

\* visit_mut_ts_type_alias_decl: the mark and the definition first (a name
\* that the current scope holds already panics: "unable to declare .. multiple
\* times"), then the type parameters and the type
visit_mut_ts_type_alias_decl(az, ctxt, st) ==
  LET new_mark == az.marks
      az1 == define_in_current_scope([az EXCEPT !.marks = @ + 1], st.name, new_mark)
      az2 == visit_mut_ts_type_param_decl(az1, st.type_params)
  IN  IF st.name \in DOMAIN current_definitions(az)
      THEN [az |-> [az EXCEPT !.marks = @ + 1, !.panicked = TRUE],
            ctxt |-> [ctxt EXCEPT !.mark = new_mark]]
      ELSE [az |-> pop_scope_on_type_param(az2),
            ctxt |-> [ctxt EXCEPT !.mark = new_mark,
                                  !.reads = ReadsOf(az2, visited_names(st, VisitedPlaces))]]

\* visit_mut_fn_decl: the type parameters, and their scope popped
visit_mut_fn_decl(az, ctxt, st) ==
  [az |-> pop_scope_on_type_param(visit_mut_ts_type_param_decl(az, st.type_params)),
   ctxt |-> ctxt]

\* visit_mut_class_decl: the type parameters; their scope stays
visit_mut_class_decl(az, ctxt, st) ==
  [az |-> visit_mut_ts_type_param_decl(az, st.type_params), ctxt |-> ctxt]

\* a variable declaration has no visitor of its own: its type annotation
\* is visited with the children
visit_mut_var_decl(az, ctxt, st) ==
  [az |-> az, ctxt |-> [ctxt EXCEPT !.reads = ReadsOf(az, visited_names(st, VisitedPlaces))]]

\* the declaration of a statement, by its kind; an enum and a namespace
\* (with an empty body) have no visitor and nothing in them that one visits
visit_mut_decl(az, ctxt, st) ==
  CASE st.decl = "interface" -> visit_mut_ts_interface_decl(az, ctxt, st)
    [] st.decl = "type" -> visit_mut_ts_type_alias_decl(az, ctxt, st)
    [] st.decl = "function" -> visit_mut_fn_decl(az, ctxt, st)
    [] st.decl = "class" -> visit_mut_class_decl(az, ctxt, st)
    [] st.decl = "var" -> visit_mut_var_decl(az, ctxt, st)
    [] OTHER -> [az |-> az, ctxt |-> ctxt]

ExportName(exported_name, original_ident, mark, src, index) ==
  [kind |-> "Name", exported_name |-> exported_name, original_ident |-> original_ident,
   mark |-> mark, src |-> src, index |-> index]

ExportNamespaceEntry(exported_name, mark, src, index) ==
  [kind |-> "Namespace", exported_name |-> exported_name, original_ident |-> None,
   mark |-> mark, src |-> src, index |-> index]

ExportAllEntry(src, index) ==
  [kind |-> "All", exported_name |-> None, original_ident |-> None,
   mark |-> NoMark, src |-> src, index |-> index]

ImportIdent(orig) == IF orig = "*" THEN "Namespace" ELSE "Name"

\* ModuleAnalyzer::add_import: a fresh mark per specifier; a local name that
\* is already imported keeps its first binding.
RECURSIVE add_import(_, _, _, _)
add_import(az, src, specs, index) ==
  IF specs = <<>> THEN az
  ELSE LET s == Head(specs)
           new_mark == az.marks
           binding == [index |-> index, mark |-> new_mark, local_name |-> s.as,
                       ident |-> ImportIdent(s.orig), original_ident |-> s.orig,
                       src |-> src]
           az1 == [az EXCEPT !.marks = @ + 1,
                             !.imports = IF s.as \in DOMAIN @ THEN @
                                         ELSE Put(@, s.as, binding)]
       IN  add_import(az1, src, Tail(specs), index)

\* The named specifiers of `export { ... } [from src]`: the mark is the one
\* the original name is bound to in this module, or a fresh one.
RECURSIVE export_named_specifiers(_, _, _)
export_named_specifiers(az, src, specs) ==
  IF specs = <<>> THEN az
  ELSE LET s == Head(specs)
           found == get_mark_by_name(az, s.orig)
           new_mark == IF found # NoMark THEN found ELSE az.marks
           entry == ExportName(s.as, s.orig, new_mark, src,
                               IF src # NoSrc THEN az.current_import_index ELSE 0)
           az1 == [az EXCEPT !.marks = IF found # NoMark THEN @ ELSE @ + 1,
                             !.exports = Append(@, entry),
                             !.current_import_index = IF src # NoSrc THEN @ + 1 ELSE @]
       IN  export_named_specifiers(az1, src, Tail(specs))

\* visit_mut_module_item on one statement: returns the analyzer with the
\* statement's context appended.
visit_mut_module_item(az, st) ==
  CASE st.kind = "Import" ->
         LET az1 == add_import(az, st.src, st.specs, az.current_import_index)
         IN  [az1 EXCEPT !.current_import_index = @ + 1,
                         !.statement_context =
                            Append(@, [NewContext EXCEPT !.is_import = TRUE])]
    [] st.kind = "Decl" ->
         LET r == visit_mut_decl(az, NewContext, st)
         IN  [r.az EXCEPT !.statement_context = Append(@, r.ctxt)]
    [] st.kind = "ExportDecl" ->
         LET r == visit_mut_decl(
                    az, [NewContext EXCEPT !.is_export = TRUE, !.is_export_decl = TRUE], st)
         IN  [r.az EXCEPT !.statement_context = Append(@, r.ctxt),
                          !.exports = IF st.decl = "namespace" THEN @
                                      ELSE Append(@, ExportName(st.name, st.name, r.ctxt.mark,
                                                                NoSrc, 0))]
    [] st.kind = "ExportNamed" ->
         LET az1 == export_named_specifiers(az, st.src, st.specs)
         IN  [az1 EXCEPT !.statement_context =
                            Append(@, [NewContext EXCEPT !.is_export = TRUE])]
    [] st.kind = "ExportDefaultDecl" ->
         LET new_mark == az.marks
             az1 == [az EXCEPT !.marks = @ + 1,
                               !.exports = Append(@, ExportName("default", "default",
                                                                new_mark, NoSrc, 0))]
             r == visit_mut_ts_interface_decl(
                    az1, [NewContext EXCEPT !.is_export = TRUE, !.is_export_decl = TRUE], st)
         IN  [r.az EXCEPT !.statement_context = Append(@, r.ctxt)]
    [] st.kind = "ExportNamespace" ->
         [az EXCEPT !.marks = @ + 1,
                    !.exports = Append(@, ExportNamespaceEntry(st.name, az.marks, st.src,
                                                               az.current_import_index)),
                    !.current_import_index = @ + 1,
                    !.statement_context =
                       Append(@, [NewContext EXCEPT !.is_export = TRUE,
                                                    !.is_export_decl = TRUE])]
    [] st.kind = "ExportAll" ->
         [az EXCEPT !.marks = @ + 1,
                    !.exports = Append(@, ExportAllEntry(st.src, az.current_import_index)),
                    !.current_import_index = @ + 1,
                    !.statement_context =
                       Append(@, [NewContext EXCEPT !.is_export = TRUE])]

RECURSIVE visit_mut_module(_, _)
visit_mut_module(az, body) ==
  IF body = <<>> \/ az.panicked THEN az
  ELSE visit_mut_module(visit_mut_module_item(az, Head(body)), Tail(body))

\* Module::analyze: the analyzer's result for one file, the SymbolBox
\* holding `marks` keys when the analysis starts.
analyze(body, marks) == visit_mut_module(NewAnalyzer(marks), body)

\* Module::generate_statements_from_ctxt, `ctxt.mark.expect(..)`: a context
\* that becomes a DeclStatement holds a mark, or the worker panics
mark_is_available(ctxts) ==
  \A i \in DOMAIN ctxts :
    \/ ctxts[i].is_import
    \/ ctxts[i].is_export /\ ~ctxts[i].is_export_decl
    \/ ctxts[i].mark # NoMark

\* Module::generate_statements_from_ctxt: one Statement per top-level item
generate_statements_from_ctxt(ctxts) ==
  [i \in DOMAIN ctxts |->
     IF ctxts[i].is_import THEN
       [kind |-> "ImportStatement", included |-> FALSE, reads |-> {},
        is_export_decl |-> FALSE, mark |-> NoMark]
     ELSE IF ctxts[i].is_export /\ ~ctxts[i].is_export_decl THEN
       [kind |-> "ExportStatementNonDecl", included |-> FALSE, reads |-> {},
        is_export_decl |-> FALSE, mark |-> NoMark]
     ELSE
       [kind |-> "DeclStatement", included |-> FALSE, reads |-> ctxts[i].reads,
        is_export_decl |-> ctxts[i].is_export_decl, mark |-> ctxts[i].mark]]

\* AsyncWorker::run, the exports map built from the analyzer's exports:
\* later entries of the same exported name replace earlier ones, and
\* `export *` entries are left to link_export_all.
RECURSIVE exports_map(_, _)
exports_map(exports, acc) ==
  IF exports = <<>> THEN acc
  ELSE exports_map(Tail(exports),
                   IF Head(exports).kind = "All" THEN acc
                   ELSE Put(acc, Head(exports).exported_name, Head(exports)))

\* Module as it is sent in NewModule
NewModuleOf(id, body, marks) ==
  LET az == analyze(body, marks)
  IN  [id |-> id,
       statements |-> generate_statements_from_ctxt(az.statement_context),
       imports |-> az.imports,
       local_exports |-> az.exports,
       exports |-> exports_map(az.exports, EmptyMap),
       src_to_resolved_id |-> src_to_resolved_id(id, body)]


----------------------------------------------------------------------------
(* The SymbolBox: a union-find over the marks 0 .. n-1 (ena's in-place      *)
(* table: union by rank, the second root winning a tie).                   *)

NewSymbolBox == [parent |-> [k \in {0} |-> 0], rank |-> [k \in {0} |-> 0]]

KeyCount(uf) == Cardinality(DOMAIN uf.parent)

\* `k` calls of new_key
NewKeys(uf, k) ==
  LET n == KeyCount(uf)
  IN  [parent |-> [i \in 0..(n + k - 1) |-> IF i < n THEN uf.parent[i] ELSE i],
       rank |-> [i \in 0..(n + k - 1) |-> IF i < n THEN uf.rank[i] ELSE 0]]

RECURSIVE find_root(_, _)
find_root(uf, a) == IF uf.parent[a] = a THEN a ELSE find_root(uf, uf.parent[a])

union(uf, a, b) ==
  LET ra == find_root(uf, a)
      rb == find_root(uf, b)
  IN  IF ra = rb THEN uf
      ELSE IF uf.rank[ra] > uf.rank[rb] THEN [uf EXCEPT !.parent[rb] = ra]
      ELSE IF uf.rank[ra] < uf.rank[rb] THEN [uf EXCEPT !.parent[ra] = rb]
      ELSE [uf EXCEPT !.parent[ra] = rb, !.rank[rb] = @ + 1]

----------------------------------------------------------------------------
(* ModuleGraph: petgraph nodes in insertion order (a ModuleIndex is the    *)
(* position of the node, counted from 1), edges in insertion order.        *)

NewModuleGraph ==
  [nodes |-> <<>>, edges |-> <<>>, module_id_to_index |-> EmptyMap, sorted_modules |-> <<>>]

\* the ModuleIndex that add_module returns: the index of the node that
\* add_node has added
add_module_index(g, id) == Len(g.nodes) + 1

add_module(g, id) ==
  [g EXCEPT !.nodes = Append(@, id),
            !.module_id_to_index = IF id \in DOMAIN @ THEN @ ELSE Put(@, id, Len(g.nodes) + 1)]

get_or_add_module(g, id) ==
  IF id \in DOMAIN g.module_id_to_index THEN g ELSE add_module(g, id)

add_edge(g, from, to, kind, index) ==
  [g EXCEPT !.edges = Append(@, [from |-> from, to |-> to, kind |-> kind, index |-> index])]

get_module_id_by_index(g, i) == g.nodes[i]

----------------------------------------------------------------------------
(* WorkerMessage, and the messages AsyncWorker::run sends for a module.    *)

NoId == <<>>

NewDependency(from, to, kind, index) ==
  [type |-> "NewDependency", from |-> from, to |-> to, edge |-> kind, index |-> index,
   module |-> None]

NewModule(module) ==
  [type |-> "NewModule", from |-> module.id, to |-> module.id, edge |-> None, index |-> 0,
   module |-> module]

\* add_import_graph: the import bindings in the order `ord` of the imports
\* map, one Import edge for the first binding of each target module.
RECURSIVE add_import_graph(_, _, _, _)
add_import_graph(module, ord, i, seen) ==
  IF i > Len(ord) THEN <<>>
  ELSE LET b == module.imports[ord[i]]
           to == module.src_to_resolved_id[b.src]
       IN  IF to \in seen THEN add_import_graph(module, ord, i + 1, seen)
           ELSE <<NewDependency(module.id, to, "Import", b.index)>>
                \o add_import_graph(module, ord, i + 1, seen \cup {to})

EdgeKindOf(export) ==
  CASE export.kind = "Name" -> "ExportNamed"
    [] export.kind = "All" -> "ExportAll"
    [] export.kind = "Namespace" -> "ExportNamespace"

\* add_export_graph: one edge per export entry that has a source
RECURSIVE add_export_graph(_, _)
add_export_graph(module, exports) ==
  IF exports = <<>> THEN <<>>
  ELSE LET e == Head(exports)
       IN  (IF e.src # NoSrc
            THEN <<NewDependency(module.id, module.src_to_resolved_id[e.src],
                                 EdgeKindOf(e), e.index)>>
            ELSE <<>>)
           \o add_export_graph(module, Tail(exports))

\* every sequence of messages one run may send for `module`
RunMessages(module) ==
  {add_import_graph(module, ord, 1, {})
     \o add_export_graph(module, module.local_exports)
     \o <<NewModule(module)>> : ord \in Orderings(DOMAIN module.imports)}


----------------------------------------------------------------------------
(* Source files of the runs of Graph::generate.                            *)

Index == <<"index">>
FileA == <<"a">>
FileB == <<"b">>

SrcA == <<".", "a">>
SrcB == <<".", "b">>
SrcIndex == <<".", "index">>

ImportOne(src, name) == ImportDecl(src, <<Sp(name, name)>>)

\* a single file
SingleFile ==
  [f \in {Index} |-> <<ExportInterface("A", <<>>)>>]

\* index imports a and b, which both import each other's neighbour: b is
\* discovered by index and by a, and b imports index again (a cycle)
Diamond ==
  [f \in {Index, FileA, FileB} |->
     CASE f = Index -> <<ImportOne(SrcA, "A"), ImportOne(SrcB, "B"),
                         ExportInterface("C", <<"A", "B">>)>>
       [] f = FileA -> <<ImportOne(SrcB, "B"), ExportInterface("A", <<"B">>)>>
       [] f = FileB -> <<ExportNamed(SrcIndex, <<Sp("C", "C")>>), ExportInterface("B", <<>>)>>]

\* index re-exports everything of a, a re-exports two names of b
Chain ==
  [f \in {Index, FileA, FileB} |->
     CASE f = Index -> <<ExportAll(SrcA)>>
       [] f = FileA -> <<ExportNamed(SrcB, <<Sp("X", "X"), Sp("Y", "Z")>>)>>
       [] f = FileB -> <<ExportInterface("X", <<>>), ExportInterface("Y", <<"X">>)>>]

\* a two-module cycle below the entry
Cycle ==
  [f \in {Index, FileA, FileB} |->
     CASE f = Index -> <<ExportNamed(SrcA, <<Sp("Z", "Z")>>)>>
       [] f = FileA -> <<ExportNamed(SrcB, <<Sp("Z", "Z")>>)>>
       [] f = FileB -> <<ImportOne(SrcA, "Z"), ExportInterface("Z", <<>>)>>]

GenPrograms == {SingleFile, Diamond, Chain, Cycle}

----------------------------------------------------------------------------
(* Graph::generate.                                                        *)

\* num_cpus::get_physical()
NumWorkers == 2

\* The capacity of the channel.  The code asks for 32; the model takes a
\* capacity that the messages of the modelled files do fill, so that
\* senders block on a full channel.
ChannelCapacity == 2

Workers == 1..NumWorkers

VARIABLES
  files,              \* the source files: module id -> statements
  badFiles,           \* the ids whose file does not parse
  modules_to_work,    \* the shared LIFO of ids to process
  worked_modules,     \* the ids some worker has taken
  idle_thread_count,
  lock,               \* the holder of the modules_to_work lock, or 0
  chan,               \* the messages in the channel
  workers,            \* per worker: pc, job, ids to push, messages to send
  mark_uf,            \* SYMBOL_BOX
  dpc,                \* the driver's position
  id_to_module,
  module_graph,
  entry_module_index,
  pushed,             \* history: every id pushed on modules_to_work
  received,           \* history: the ids of the NewModule messages received
  sort_state,         \* sort_modules: its stack, visited set and output
  cursor,             \* the position of the linker's and tree-shaker's loops
  marks_to_include,   \* include_with_tree_shaking: the set of root marks
  error,              \* the message of the panic that stopped the driver, or None
  symbol_lock,        \* the holder of the SYMBOL_BOX mutex, or 0
  clients,            \* per caller of the symbol API: its call in progress
  joined,             \* resolve_id: the path it is first called on
  resolved,           \* resolve_id: the results of the calls, each on the last result
  added,              \* add_module: the id and the returned index of each call
  analyzer,           \* the ModuleAnalyzer of a module that is analyzed on its own
  generated           \* the result of generate_statements_from_ctxt for that module

sharedVars == <<modules_to_work, worked_modules, idle_thread_count, lock>>
buildVars == <<sort_state, cursor, marks_to_include, error>>
symbolVars == <<symbol_lock, clients>>
unitVars == <<joined, resolved, added, analyzer, generated>>
driverVars == <<dpc, id_to_module, module_graph, entry_module_index, received, buildVars>>
inputVars == <<files, badFiles>>

vars == <<files, badFiles, modules_to_work, worked_modules, idle_thread_count, lock,
          chan, workers, mark_uf, dpc, id_to_module, module_graph, entry_module_index,
          pushed, received, sort_state, cursor, marks_to_include, error, symbol_lock,
          clients, joined, resolved, added, analyzer, generated>>

resolved_entry == Index

NewWorker == [pc |-> "start", job |-> NoId, todo |-> {}, outbox |-> <<>>]

\* a caller of the symbol API between two calls; `returned` is the history
\* of the marks its new_mark calls returned
NewClient == [pc |-> "idle", op |-> None, len |-> 0, returned |-> <<>>]

\* the locals of sort_modules before its loop starts
NewSort == [stack |-> <<>>, visited |-> {}, sorted |-> <<>>]

\* The driver's state that the receive loop updates, and one iteration of
\* the loop on the message `msg`.
DriverState(ids, g, entry, recv) ==
  [id_to_module |-> ids, module_graph |-> g, entry_module_index |-> entry, received |-> recv]

on_message(d, msg) ==
  IF msg.type = "NewModule"
  THEN LET g == get_or_add_module(d.module_graph, msg.from)
       IN  [id_to_module |-> Put(d.id_to_module, msg.from, msg.module),
            module_graph |-> g,
            entry_module_index |-> IF msg.from = resolved_entry
                                   THEN g.module_id_to_index[msg.from]
                                   ELSE d.entry_module_index,
            received |-> Append(d.received, msg.from)]
  ELSE LET g1 == get_or_add_module(d.module_graph, msg.from)
           g2 == get_or_add_module(g1, msg.to)
       IN  [d EXCEPT !.module_graph = add_edge(g2, g2.module_id_to_index[msg.from],
                                               g2.module_id_to_index[msg.to],
                                               msg.edge, msg.index)]

GenerateInit ==
  /\ modules_to_work = <<resolved_entry>>
  /\ worked_modules = {}
  /\ idle_thread_count = NumWorkers
  /\ lock = 0
  /\ chan = <<>>
  /\ workers = [w \in Workers |-> NewWorker]
  /\ mark_uf = NewSymbolBox
  /\ dpc = "recv"
  /\ id_to_module = EmptyMap
  /\ module_graph = add_module(NewModuleGraph, resolved_entry)
  /\ entry_module_index = 1
  /\ pushed = {resolved_entry}
  /\ received = <<>>
  /\ sort_state = NewSort
  /\ cursor = 0
  /\ marks_to_include = {}
  /\ error = None
  /\ symbol_lock = 0
  /\ clients = [w \in Workers |-> NewClient]

\* generate_statements_from_ctxt not called yet
NotGenerated == [done |-> FALSE, ok |-> FALSE, statements |-> <<>>]

\* no call of the functions that are followed on their own
UnitInit ==
  /\ joined = <<>>
  /\ resolved = <<>>
  /\ added = <<>>
  /\ analyzer = NewAnalyzer(1)
  /\ generated = NotGenerated

Init ==
  /\ files \in GenPrograms
  /\ badFiles \in {{}} \cup {{f} : f \in DOMAIN files}
  /\ GenerateInit
  /\ UnitInit

\* The guard of `while let Some(id) = modules_to_work.lock().unwrap().pop()`
\* is a temporary of the loop's scrutinee: it lives until the end of the
\* loop body, so the test and the insert on worked_modules run under it.
GuardDroppedAfterPop == FALSE

GuardHeldInBody == TRUE

\* idle_thread_count.fetch_sub(1)
FetchSub(w) ==
  /\ workers[w].pc = "start"
  /\ idle_thread_count' = idle_thread_count - 1
  /\ workers' = [workers EXCEPT ![w].pc = "fetch"]
  /\ UNCHANGED <<modules_to_work, worked_modules, lock, chan, mark_uf, pushed>>
  /\ UNCHANGED <<driverVars, inputVars, symbolVars, unitVars>>

\* fetch_job: lock and pop; an empty list ends fetch_job with None
FetchPop(w) ==
  /\ workers[w].pc = "fetch"
  /\ lock = 0
  /\ IF modules_to_work = <<>>
     THEN /\ workers' = [workers EXCEPT ![w].pc = "incr"]
          /\ UNCHANGED <<modules_to_work, lock>>
     ELSE /\ modules_to_work' = Front(modules_to_work)
          /\ workers' = [workers EXCEPT ![w].pc = "contains", ![w].job = Last(modules_to_work)]
          /\ lock' = IF GuardHeldInBody THEN w ELSE 0
  /\ UNCHANGED <<worked_modules, idle_thread_count, chan, mark_uf, pushed>>
  /\ UNCHANGED <<driverVars, inputVars, symbolVars, unitVars>>

\* fetch_job: worked_modules.contains(&resolved_id)
FetchContains(w) ==
  /\ workers[w].pc = "contains"
  /\ IF workers[w].job \in worked_modules
     THEN /\ workers' = [workers EXCEPT ![w].pc = "fetch", ![w].job = NoId]
          /\ lock' = IF lock = w THEN 0 ELSE lock
     ELSE /\ workers' = [workers EXCEPT ![w].pc = "insert"]
          /\ UNCHANGED lock
  /\ UNCHANGED <<modules_to_work, worked_modules, idle_thread_count, chan, mark_uf, pushed>>
  /\ UNCHANGED <<driverVars, inputVars, symbolVars, unitVars>>

\* fetch_job: worked_modules.insert(resolved_id); return Some(resolved_id)
FetchInsert(w) ==
  /\ workers[w].pc = "insert"
  /\ worked_modules' = worked_modules \cup {workers[w].job}
  /\ lock' = IF lock = w THEN 0 ELSE lock
  /\ workers' = [workers EXCEPT ![w].pc = "parse"]
  /\ UNCHANGED <<modules_to_work, idle_thread_count, chan, mark_uf, pushed>>
  /\ UNCHANGED <<driverVars, inputVars, symbolVars, unitVars>>

ParseFails(id) == id \notin DOMAIN files \/ id \in badFiles

\* parse_file(resolved_id).await.unwrap(): a failure panics the task, which
\* drops its sender and leaves idle_thread_count decremented
ParseFile(w) ==
  /\ workers[w].pc = "parse"
  /\ IF ParseFails(workers[w].job)
     THEN workers' = [workers EXCEPT ![w].pc = "panicked"]
     ELSE workers' = [workers EXCEPT ![w].pc = "discover",
                        ![w].todo = pre_analyze_sub_modules(workers[w].job,
                                                            files[workers[w].job])]
  /\ UNCHANGED <<sharedVars, chan, mark_uf, pushed, driverVars, inputVars, symbolVars, unitVars>>

\* discover_module: one push per discovered id, each under the lock, in
\* the iteration order of the HashSet
DiscoverModule(w) ==
  /\ workers[w].pc = "discover"
  /\ lock = 0
  /\ \E id \in workers[w].todo :
       /\ modules_to_work' = Append(modules_to_work, id)
       /\ pushed' = pushed \cup {id}
       /\ workers' = [workers EXCEPT ![w].todo = @ \ {id}]
  /\ UNCHANGED <<worked_modules, idle_thread_count, lock, chan, mark_uf>>
  /\ UNCHANGED <<driverVars, inputVars, symbolVars, unitVars>>

\* module.analyze, generate_statements_from_ctxt, and the messages of
\* add_import_graph, add_export_graph and NewModule made ready; az is the
\* analyzer that module.analyze returns and module the Module it fills
AnalyzeModule(w) ==
  /\ workers[w].pc = "discover"
  /\ workers[w].todo = {}
  /\ LET id == workers[w].job
     IN  \E az \in {analyze(files[id], KeyCount(mark_uf))} :
         \E module \in {NewModuleOf(id, files[id], KeyCount(mark_uf))} :
           /\ mark_uf' = NewKeys(mark_uf, az.marks - KeyCount(mark_uf))
           /\ IF ~az.panicked /\ mark_is_available(az.statement_context)
              THEN \E msgs \in RunMessages(module) :
                     workers' = [workers EXCEPT ![w].pc = "send", ![w].outbox = msgs]
              ELSE workers' = [workers EXCEPT ![w].pc = "panicked"]
  /\ UNCHANGED <<sharedVars, chan, pushed, driverVars, inputVars, symbolVars, unitVars>>

\* resp_tx.send(..).await: waits while the channel is full
Send(w) ==
  /\ workers[w].pc = "send"
  /\ Len(chan) < ChannelCapacity
  /\ chan' = Append(chan, Head(workers[w].outbox))
  /\ workers' = [workers EXCEPT ![w].outbox = Tail(@),
                                ![w].pc = IF Len(workers[w].outbox) = 1 THEN "incr" ELSE "send",
                                ![w].job = IF Len(workers[w].outbox) = 1 THEN NoId ELSE @]
  /\ UNCHANGED <<sharedVars, mark_uf, pushed, driverVars, inputVars, symbolVars, unitVars>>

\* idle_thread_count.fetch_add(1, Ordering::SeqCst)
IdleAfterRun(n) == n + 1

FetchAdd(w) ==
  /\ workers[w].pc = "incr"
  /\ idle_thread_count' = IdleAfterRun(idle_thread_count)
  /\ workers' = [workers EXCEPT ![w].pc = "spin"]
  /\ UNCHANGED <<modules_to_work, worked_modules, lock, chan, mark_uf, pushed>>
  /\ UNCHANGED <<driverVars, inputVars, symbolVars, unitVars>>

\* the inner loop: `if !modules_to_work.is_empty() { break }`
SpinPending(w) ==
  /\ workers[w].pc = "spin"
  /\ lock = 0
  /\ workers' = [workers EXCEPT ![w].pc = IF modules_to_work # <<>> THEN "start" ELSE "spin_idle"]
  /\ UNCHANGED <<sharedVars, chan, mark_uf, pushed, driverVars, inputVars, symbolVars, unitVars>>

\* the inner loop: `else if idle_thread_count == num_of_threads { return }`
SpinIdle(w) ==
  /\ workers[w].pc = "spin_idle"
  /\ workers' = [workers EXCEPT ![w].pc = IF idle_thread_count = NumWorkers
                                          THEN "exited" ELSE "spin"]
  /\ UNCHANGED <<sharedVars, chan, mark_uf, pushed, driverVars, inputVars, symbolVars, unitVars>>

WorkerStep(w) ==
  \/ FetchSub(w)
  \/ FetchPop(w)
  \/ FetchContains(w)
  \/ FetchInsert(w)
  \/ ParseFile(w)
  \/ DiscoverModule(w)
  \/ AnalyzeModule(w)
  \/ Send(w)
  \/ FetchAdd(w)
  \/ SpinPending(w)
  \/ SpinIdle(w)

\* a sender is dropped when its task returns or panics
SenderDropped(w) == workers[w].pc \in {"exited", "panicked"}

\* the body of `while let Some(worker_message) = rx.recv().await`
Receive ==
  /\ dpc = "recv"
  /\ chan # <<>>
  /\ LET d == on_message(DriverState(id_to_module, module_graph, entry_module_index,
                                      received), Head(chan))
     IN  /\ chan' = Tail(chan)
         /\ id_to_module' = d.id_to_module
         /\ module_graph' = d.module_graph
         /\ entry_module_index' = d.entry_module_index
         /\ received' = d.received
  /\ UNCHANGED <<dpc, buildVars>>
  /\ UNCHANGED <<sharedVars, workers, mark_uf, pushed, inputVars, symbolVars, unitVars>>

\* the driver keeps its own sender for the whole receive loop
DriverSenderKept == FALSE

\* drop(tx): the driver drops its own sender before the receive loop
DriverSenderDropped == TRUE

\* rx.recv() returns None: the channel is empty and every sender is dropped
ChannelClosed ==
  /\ dpc = "recv"
  /\ chan = <<>>
  /\ DriverSenderDropped
  /\ \A w \in Workers : SenderDropped(w)
  /\ dpc' = "done"
  /\ UNCHANGED <<id_to_module, module_graph, entry_module_index, received, buildVars>>
  /\ UNCHANGED <<sharedVars, chan, workers, mark_uf, pushed, inputVars, symbolVars, unitVars>>

Next ==
  \/ \E w \in Workers : WorkerStep(w)
  \/ Receive
  \/ ChannelClosed

Spec == Init /\ [][Next]_vars

\* The runs checked for termination: the files of Cycle (a is discovered by
\* index and again by b), every file parsing or one of them failing.
FairInit ==
  /\ files = Cycle
  /\ badFiles \in {{}} \cup {{f} : f \in DOMAIN files}
  /\ GenerateInit
  /\ UnitInit

\* tokio runs every spawned task and the driver: each keeps taking steps
FairSpec ==
  /\ FairInit
  /\ [][Next]_vars
  /\ \A w \in Workers : WF_vars(WorkerStep(w))
  /\ WF_vars(Receive)
  /\ WF_vars(ChannelClosed)


----------------------------------------------------------------------------
(* Properties of Graph::generate.                                          *)

Count(seq, x) == Cardinality({i \in DOMAIN seq : seq[i] = x})

\* the ids that the sources of the files lead to from the entry
RECURSIVE ReachableFrom(_)
ReachableFrom(S) ==
  LET T == S \cup UNION {pre_analyze_sub_modules(id, files[id]) : id \in S \cap DOMAIN files}
  IN  IF T = S THEN S ELSE ReachableFrom(T)

ReachableIds == ReachableFrom({resolved_entry})

NoPanic == \A w \in Workers : workers[w].pc # "panicked"

AllExited == \A w \in Workers : workers[w].pc = "exited"

\* the workers that hold `id` as the job fetch_job returned to them
Holders(id) ==
  {w \in Workers : workers[w].job = id
                   /\ workers[w].pc \in {"parse", "discover", "send", "panicked"}}

NewModuleInFlight(id) ==
  Cardinality({i \in DOMAIN chan : chan[i].type = "NewModule" /\ chan[i].from = id})

\* a pushed id that no worker has taken yet
Unclaimed(id) == id \in Range(modules_to_work) /\ id \notin worked_modules


C2_GraphComplete ==
  (dpc = "done" /\ NoPanic) =>
     /\ modules_to_work = <<>>
     /\ idle_thread_count = NumWorkers
     /\ \A id \in ReachableIds :
          /\ id \in worked_modules
          /\ Count(received, id) = 1
          /\ id \in DOMAIN id_to_module

\* C2 (last clause, as claimed): no worker has returned from its loop while
\* a pushed id is still waiting in modules_to_work, not taken by any worker.
C2_NoEarlyExit ==
  NoPanic =>
     \A w \in Workers :
        workers[w].pc = "exited" => \A id \in pushed : ~Unclaimed(id)

\* C2 as claimed: both parts
C2_Claim == C2_GraphComplete /\ C2_NoEarlyExit

\* C3: fetch_job returns an id to at most one worker, so at most one
\* NewModule of an id is ever held by a worker, in the channel or received.
C3_ClaimedOnce ==
  \A id \in pushed :
     Cardinality(Holders(id)) + NewModuleInFlight(id) + Count(received, id) <= 1

\* an id pushed twice: one worker finds the second copy already taken while
\* another worker is processing the module
C3_Witness ==
  \E w1, w2 \in Workers :
     /\ w1 # w2
     /\ workers[w1].pc = "contains"
     /\ workers[w1].job \in worked_modules
     /\ w2 \in Holders(workers[w1].job)

\* C4 (as claimed): once the parse of a module has failed in a worker, the
\* run still ends: the driver leaves its receive loop.
C4_Claim == (\E w \in Workers : workers[w].pc = "panicked") ~> (dpc = "done")

----------------------------------------------------------------------------
(* ModuleGraph::sort_modules.                                              *)

Reverse(s) == [i \in 1..Len(s) |-> s[Len(s) + 1 - i]]

\* petgraph's edges_directed walks the edge list of a node from the edge
\* added last to the edge added first
get_edges_directed(g, node, direction) ==
  Reverse(SelectSeq(g.edges, LAMBDA e : IF direction = "Outgoing"
                                        THEN e.from = node ELSE e.to = node))

\* Vec::sort_by_key(|e| e.1): a stable sort on the edge index
RECURSIVE insert_by_key(_, _)
insert_by_key(s, e) ==
  IF s = <<>> THEN <<e>>
  ELSE IF Head(s).index <= e.index THEN <<Head(s)>> \o insert_by_key(Tail(s), e)
  ELSE <<e>> \o s

RECURSIVE sort_by_key(_)
sort_by_key(s) ==
  IF s = <<>> THEN <<>> ELSE insert_by_key(sort_by_key(Front(s)), Last(s))

\* the outgoing edges of `node` whose target is not visited, by edge index
level_edges(g, node, visited) ==
  sort_by_key(SelectSeq(get_edges_directed(g, node, "Outgoing"),
                        LAMBDA e : e.to \notin visited))

\* an iteration that emits a node when it is first visited, not when it is
\* popped again
sort_visit_preorder(g, st) ==
  LET node == Last(st.stack)
      rest == Front(st.stack)
  IN  IF node \in st.visited THEN [st EXCEPT !.stack = rest]
      ELSE LET visited == st.visited \cup {node}
               targets == level_edges(g, node, visited)
           IN  [stack |-> rest \o <<node>> \o [i \in DOMAIN targets |-> targets[i].to],
                visited |-> visited,
                sorted |-> Append(st.sorted, node)]

\* one iteration of `while let Some(node_index) = stack.pop()`
sort_visit(g, st) ==
  LET node == Last(st.stack)
      rest == Front(st.stack)
  IN  IF node \in st.visited
      THEN [st EXCEPT !.stack = rest, !.sorted = Append(@, node)]
      ELSE LET visited == st.visited \cup {node}
               targets == level_edges(g, node, visited)
           IN  [stack |-> rest \o <<node>> \o [i \in DOMAIN targets |-> targets[i].to],
                visited |-> visited,
                sorted |-> st.sorted]

----------------------------------------------------------------------------
(* Graph::link_export_all and Graph::link_modules.  An operator that may   *)
(* panic returns a record whose field ok is FALSE when it did.             *)

get_module_by_module_index(mods, g, module_index) ==
  mods[get_module_id_by_index(g, module_index)]

\* the panic messages of the linker: "[Graph] duplicated key detected: {}"
\* and "[Graph] linking failed, as symbol `{}` imported from {} is not exist"
DuplicatedKey(local_name) ==
  [kind |-> "duplicated key detected", name |-> local_name, module |-> None]

\* a message that leaves the target module out
LinkingFailedUnnamed(original_name, target_module_id) ==
  [kind |-> "linking failed", name |-> original_name, module |-> NoId]

LinkingFailed(original_name, target_module_id) ==
  [kind |-> "linking failed", name |-> original_name, module |-> target_module_id]

\* the exports of the target copied into the exports of the dependent
\* module; an occupied name panics ("duplicated key detected") with the
\* first occupied name the iteration of the map meets, any of `occupied`
\* (keep_exports copies nothing)
keep_exports(dep_exports, module_exports) ==
  [ok |-> TRUE, occupied |-> {}, exports |-> dep_exports]

copy_exports(dep_exports, module_exports) ==
  [ok |-> DOMAIN dep_exports \cap DOMAIN module_exports = {},
   occupied |-> DOMAIN dep_exports \cap DOMAIN module_exports,
   exports |-> [n \in DOMAIN dep_exports \cup DOMAIN module_exports |->
                  IF n \in DOMAIN dep_exports THEN dep_exports[n] ELSE module_exports[n]]]

\* link_export_all, the incoming edges of one sorted module in turn
RECURSIVE link_export_all_edges(_, _, _, _)
link_export_all_edges(mods, g, module_index, edges) ==
  IF edges = <<>> THEN [ok |-> TRUE, mods |-> mods, occupied |-> {}]
  ELSE LET edge == Head(edges)
           module_id == get_module_id_by_index(g, edge.from)
           module_exports == get_module_by_module_index(mods, g, module_index).exports
           copied == copy_exports(mods[module_id].exports, module_exports)
       IN  IF edge.kind # "ExportAll"
           THEN link_export_all_edges(mods, g, module_index, Tail(edges))
           ELSE IF ~copied.ok
           THEN [ok |-> FALSE, mods |-> mods, occupied |-> copied.occupied]
           ELSE link_export_all_edges([mods EXCEPT ![module_id].exports = copied.exports],
                                      g, module_index, Tail(edges))

\* Graph::link_export_all from position i of the sorted list on: every
\* sorted module in turn, until one of them panics
RECURSIVE link_export_all(_, _, _)
link_export_all(mods, g, i) ==
  IF i > Len(g.sorted_modules) THEN [ok |-> TRUE, mods |-> mods, occupied |-> {}]
  ELSE LET r == link_export_all_edges(mods, g, g.sorted_modules[i],
                                      get_edges_directed(g, g.sorted_modules[i], "Incoming"))
       IN  IF r.ok THEN link_export_all(r.mods, g, i + 1) ELSE r

\* link_modules, the import bindings of the module in the order `ord` of
\* its imports map, left unlinked
skip_imports(uf, mods, source_module, ord) == [ok |-> TRUE, uf |-> uf, error |-> None]

\* link_modules, the import bindings of the module in the order `ord` of
\* its imports map: a Name binding is united with the export of that name
\* of the target module; a missing export panics
RECURSIVE link_imports(_, _, _, _)
link_imports(uf, mods, source_module, ord) ==
  IF ord = <<>> THEN [ok |-> TRUE, uf |-> uf, error |-> None]
  ELSE LET module_import == source_module.imports[Head(ord)]
           target_module == mods[source_module.src_to_resolved_id[module_import.src]]
       IN  IF module_import.ident # "Name"
           THEN link_imports(uf, mods, source_module, Tail(ord))
           ELSE IF module_import.original_ident \notin DOMAIN target_module.exports
           THEN [ok |-> FALSE, uf |-> uf,
                 error |-> LinkingFailed(module_import.original_ident, target_module.id)]
           ELSE link_imports(
                  union(uf, module_import.mark,
                        target_module.exports[module_import.original_ident].mark),
                  mods, source_module, Tail(ord))

\* link_modules, the exports of the module in the order `ord` of its
\* exports map: an entry whose src is a key of the module's own
\* src_to_resolved_id is united with the export of its original name in
\* the module that src resolves to, when that module has one
RECURSIVE link_exports(_, _, _, _)
link_exports(uf, mods, source_module, ord) ==
  IF ord = <<>> THEN uf
  ELSE LET dep_export_name == source_module.exports[Head(ord)]
           src == dep_export_name.src
           linked == /\ dep_export_name.kind = "Name"
                     /\ src # NoSrc
                     /\ src \in DOMAIN source_module.src_to_resolved_id
           target_module == mods[source_module.src_to_resolved_id[src]]
       IN  IF linked /\ dep_export_name.original_ident \in DOMAIN target_module.exports
           THEN link_exports(
                  union(uf, dep_export_name.mark,
                        target_module.exports[dep_export_name.original_ident].mark),
                  mods, source_module, Tail(ord))
           ELSE link_exports(uf, mods, source_module, Tail(ord))

----------------------------------------------------------------------------
(* Graph::include_with_tree_shaking and                                    *)
(* Module::include_statement_with_mark_set.                                *)

\* the marks of a set, smallest first
RECURSIVE SeqOf(_)
SeqOf(S) ==
  IF S = {} THEN <<>>
  ELSE LET m == CHOOSE x \in S : \A y \in S : x <= y
       IN  <<m>> \o SeqOf(S \ {m})

\* the seed set: the roots of the marks of the entry module's exports
entry_export_roots(uf, entry_module) ==
  {find_root(uf, entry_module.exports[n].mark) : n \in DOMAIN entry_module.exports}

\* a test that takes every declaration for a seed
contains_any(uf, mark_set, mark) == TRUE

\* mark_set.contains(&find_root(s.mark))
contains_repr(uf, mark_set, mark) == find_root(uf, mark) \in mark_set

\* the declaration statements of the module whose root is in the mark set
seed_marks(uf, statements, mark_set) ==
  LET decls == SelectSeq(statements, LAMBDA s : s.kind = "DeclStatement"
                                               /\ contains_repr(uf, mark_set, s.mark))
  IN  [i \in DOMAIN decls |-> decls[i].mark]

\* mark_to_local_statement.get(&mark)
local_statement(statements, mark) ==
  {i \in DOMAIN statements : statements[i].kind = "DeclStatement"
                             /\ statements[i].mark = mark}

\* `while let Some(maybe_local_mark) = maybe_local_reads.pop()`
RECURSIVE include_loop(_, _, _, _, _)
include_loop(uf, statements, mark_set, maybe_local_reads, visited) ==
  IF maybe_local_reads = <<>> THEN [statements |-> statements, mark_set |-> mark_set]
  ELSE LET maybe_local_mark == Last(maybe_local_reads)
           rest == Front(maybe_local_reads)
           local == local_statement(statements, maybe_local_mark)
       IN  IF maybe_local_mark \in visited
           THEN include_loop(uf, statements, mark_set, rest, visited)
           ELSE IF local # {}
           THEN LET index == CHOOSE i \in local : \A j \in local : j <= i
                IN  include_loop(uf, [statements EXCEPT ![index].included = TRUE], mark_set,
                                 rest \o SeqOf(statements[index].reads),
                                 visited \cup {maybe_local_mark})
           ELSE include_loop(uf, statements, mark_set \cup {find_root(uf, maybe_local_mark)},
                             rest, visited \cup {maybe_local_mark})

include_statement_with_mark_set(uf, statements, mark_set) ==
  include_loop(uf, statements, mark_set, seed_marks(uf, statements, mark_set), {})


----------------------------------------------------------------------------
(* Source files of the runs of Graph::build.                               *)

FileSubE == <<"sub", "e">>
FileSubA == <<"sub", "a">>

SrcSubE == <<".", "sub", "e">>

FileR == <<"r">>
SrcR == <<".", "r">>

\* index declares an interface A of its own and re-exports the A of a
Shadow ==
  [f \in {Index, FileA} |->
     CASE f = Index -> <<InterfaceDecl("A", <<>>), ExportNamed(SrcA, <<Sp("A", "A")>>)>>
       [] f = FileA -> <<ExportInterface("A", <<>>)>>]

\* index re-exports everything of sub/e, whose `export { A } from "./a"`
\* names sub/a, while "./a" names a in index
StarAlias ==
  [f \in {Index, FileSubE, FileA, FileSubA} |->
     CASE f = Index -> <<ExportAll(SrcSubE), ImportDecl(SrcA, <<Sp("A", "Q")>>),
                         ExportInterface("R", <<"Q">>)>>
       [] f = FileSubE -> <<ExportNamed(SrcA, <<Sp("A", "A")>>)>>
       [] f = FileA -> <<ExportInterface("A", <<>>)>>
       [] f = FileSubA -> <<ExportInterface("A", <<>>)>>]

\* index imports a for its side effects only: `import "./a"`
SideEffect ==
  [f \in {Index, FileA, FileB} |->
     CASE f = Index -> <<ImportDecl(SrcA, <<>>), ExportNamed(SrcB, <<Sp("B", "B")>>)>>
       [] f = FileA -> <<ImportOne(SrcB, "B"), InterfaceDecl("A", <<"B">>)>>
       [] f = FileB -> <<ExportInterface("B", <<>>)>>]

\* the exported B of b reads the A of a and the local H; U is not used
Shake ==
  [f \in {Index, FileA, FileB} |->
     CASE f = Index -> <<ImportOne(SrcA, "A"), ExportNamed(SrcB, <<Sp("B", "B")>>)>>
       [] f = FileA -> <<ExportInterface("A", <<>>), ExportInterface("U", <<>>)>>
       [] f = FileB -> <<ImportOne(SrcA, "A"), InterfaceDecl("H", <<>>),
                         ExportInterface("B", <<"A", "H">>)>>]

\* an aliased import: C reads X, the A of a; B is not used
Aliased ==
  [f \in {Index, FileA} |->
     CASE f = Index -> <<ImportDecl(SrcA, <<Sp("A", "X")>>), ExportInterface("C", <<"X">>)>>
       [] f = FileA -> <<ExportInterface("A", <<>>), ExportInterface("B", <<>>)>>]

\* a is re-exported whole by index and imported by b
StarDiamond ==
  [f \in {Index, FileA, FileB} |->
     CASE f = Index -> <<ExportAll(SrcA), ExportNamed(SrcB, <<Sp("B", "B")>>)>>
       [] f = FileA -> <<ExportInterface("A", <<>>)>>
       [] f = FileB -> <<ImportOne(SrcA, "A"), ExportInterface("B", <<"A">>)>>]

\* index imports a name that a does not export
MissingExport ==
  [f \in {Index, FileA} |->
     CASE f = Index -> <<ImportOne(SrcA, "X"), ExportInterface("C", <<"X">>)>>
       [] f = FileA -> <<ExportInterface("A", <<>>)>>]

\* a, loaded by `import "./a"` only, imports a name that b does not export
SideEffectMissing ==
  [f \in {Index, FileA, FileB} |->
     CASE f = Index -> <<ImportDecl(SrcA, <<>>), ExportInterface("C", <<>>)>>
       [] f = FileA -> <<ImportOne(SrcB, "X"), InterfaceDecl("A", <<"X">>)>>
       [] f = FileB -> <<ExportInterface("B", <<>>)>>]

\* index re-exports a name that a does not export
ReexportMissing ==
  [f \in {Index, FileA} |->
     CASE f = Index -> <<ExportNamed(SrcA, <<Sp("N", "B")>>)>>
       [] f = FileA -> <<ExportInterface("A", <<>>)>>]

\* r re-exports everything of a and of b; b declares T, and a re-exports
\* everything of the entry, which declares a T of its own and imports from r
StarCycle ==
  [f \in {Index, FileR, FileA, FileB} |->
     CASE f = Index -> <<ImportDecl(SrcR, <<Sp("T", "Q")>>), ExportInterface("T", <<>>)>>
       [] f = FileR -> <<ExportAll(SrcA), ExportAll(SrcB)>>
       [] f = FileA -> <<ExportAll(SrcIndex)>>
       [] f = FileB -> <<ExportInterface("T", <<>>)>>]

\* index re-exports the U of a and the B of b, which reads the A of a
Widen ==
  [f \in {Index, FileA, FileB} |->
     CASE f = Index -> <<ExportNamed(SrcA, <<Sp("U", "U")>>),
                         ExportNamed(SrcB, <<Sp("B", "B")>>)>>
       [] f = FileA -> <<ExportInterface("A", <<>>), ExportInterface("U", <<>>)>>
       [] f = FileB -> <<ImportOne(SrcA, "A"), ExportInterface("B", <<"A">>)>>]

\* index re-exports the default export of a under the name Root
DefaultExport ==
  [f \in {Index, FileA} |->
     CASE f = Index -> <<ExportNamed(SrcA, <<Sp("default", "Root")>>)>>
       [] f = FileA -> <<ExportDefaultInterface("A", <<>>)>>]

\* entry -> a -> b -> a: b declares Z, a and the entry re-export it by name
\* or with `export *`, and b names a in an import, a re-export by name or
\* an `export *`
CycleOf(entry_item, a_item, b_item) ==
  [f \in {Index, FileA, FileB} |->
     CASE f = Index -> <<entry_item>>
       [] f = FileA -> <<a_item>>
       [] f = FileB -> <<b_item, ExportInterface("Z", <<>>)>>]

CyclePrograms ==
  {CycleOf(i, a, b) :
     i \in {ExportNamed(SrcA, <<Sp("Z", "Z")>>), ExportAll(SrcA)},
     a \in {ExportNamed(SrcB, <<Sp("Z", "Z")>>), ExportAll(SrcB)},
     b \in {ImportDecl(SrcA, <<Sp("Z", "W")>>), ExportNamed(SrcA, <<Sp("Z", "Y")>>),
            ExportAll(SrcA)}}

\* the A of b is re-exported by a as B and by index, from a, as C
AliasChain ==
  [f \in {Index, FileA, FileB} |->
     CASE f = Index -> <<ExportNamed(SrcA, <<Sp("B", "C")>>)>>
       [] f = FileA -> <<ExportNamed(SrcB, <<Sp("A", "B")>>)>>
       [] f = FileB -> <<ExportInterface("A", <<>>)>>]

\* index exports the namespace of a as N, and a declaration of its own
NamespaceExport ==
  [f \in {Index, FileA} |->
     CASE f = Index -> <<ExportNamespace(SrcA, "N"), ExportInterface("C", <<>>)>>
       [] f = FileA -> <<ExportInterface("A", <<>>)>>]

\* index re-exports everything of a and imports a name from a as well
StarAndImport ==
  [f \in {Index, FileA} |->
     CASE f = Index -> <<ExportAll(SrcA), ImportDecl(SrcA, <<Sp("A", "Q")>>),
                         ExportInterface("C", <<"Q">>)>>
       [] f = FileA -> <<ExportInterface("A", <<>>)>>]

\* index re-exports everything of a, which re-exports everything of b
StarChain ==
  [f \in {Index, FileA, FileB} |->
     CASE f = Index -> <<ExportAll(SrcA)>>
       [] f = FileA -> <<ExportAll(SrcB), ExportInterface("U", <<>>)>>
       [] f = FileB -> <<ExportInterface("B", <<>>)>>]

\* a, loaded by `import "./a"` only, re-exports everything of b
SideEffectStar ==
  [f \in {Index, FileA, FileB} |->
     CASE f = Index -> <<ImportDecl(SrcA, <<>>), ExportInterface("C", <<>>)>>
       [] f = FileA -> <<ExportAll(SrcB)>>
       [] f = FileB -> <<ExportInterface("B", <<>>)>>]

\* index imports from a in its first statement and again in its third,
\* and from b in between
ImportTwice ==
  [f \in {Index, FileA, FileB} |->
     CASE f = Index -> <<ImportOne(SrcA, "A"), ImportOne(SrcB, "B"),
                         ImportDecl(SrcA, <<Sp("U", "V")>>),
                         ExportInterface("C", <<"A", "B", "V">>)>>
       [] f = FileA -> <<ExportInterface("A", <<>>), ExportInterface("U", <<>>)>>
       [] f = FileB -> <<ExportInterface("B", <<>>)>>]

\* Three files, the body of each drawn from a few: imports with and without
\* alias or specifiers, re-exports by name and by `export *`, local
\* declarations that read each other, cycles through a and b or the entry
IndexBodies ==
  {<<ImportOne(SrcA, "A"), ExportInterface("C", <<"A">>)>>,
   <<ExportAll(SrcA), ExportAll(SrcB)>>,
   <<ImportDecl(SrcB, <<Sp("B", "X")>>), ExportNamed(SrcA, <<Sp("A", "A")>>),
     ExportInterface("C", <<"X">>)>>,
   <<ExportNamed(SrcA, <<Sp("A", "A"), Sp("U", "V")>>)>>,
   <<ImportDecl(SrcA, <<>>), InterfaceDecl("A", <<>>), ExportNamed(SrcB, <<Sp("A", "A")>>),
     ExportNamed(NoSrc, <<Sp("A", "L")>>)>>}

ABodies ==
  {<<ExportInterface("A", <<>>), ExportInterface("U", <<"A">>)>>,
   <<ImportOne(SrcB, "B"), ExportInterface("A", <<"B">>), InterfaceDecl("U", <<>>)>>,
   <<ExportAll(SrcB), ExportInterface("U", <<>>)>>,
   <<ExportNamed(SrcB, <<Sp("B", "A")>>), ExportInterface("U", <<>>)>>}

BBodies ==
  {<<ExportInterface("B", <<>>)>>,
   <<ImportOne(SrcA, "U"), ExportInterface("B", <<"U">>)>>,
   <<InterfaceDecl("H", <<"A">>), ExportInterface("A", <<>>), ExportInterface("B", <<"H">>)>>,
   <<ExportAll(SrcIndex), ExportInterface("B", <<>>)>>}

GeneratedPrograms ==
  {[f \in {Index, FileA, FileB} |->
      CASE f = Index -> i [] f = FileA -> a [] f = FileB -> b] :
     i \in IndexBodies, a \in ABodies, b \in BBodies}

BuildPrograms ==
  {SingleFile, Diamond, Chain, Cycle, Shadow, StarAlias, SideEffect, Shake, Aliased,
   StarDiamond, MissingExport, SideEffectMissing, ReexportMissing,
   StarCycle, Widen, DefaultExport, AliasChain, NamespaceExport, StarAndImport,
   StarChain, SideEffectStar, ImportTwice}
    \cup CyclePrograms \cup GeneratedPrograms

----------------------------------------------------------------------------
(* Graph::build.  The workers of generate are taken in steps that claim    *)
(* and discover, and that analyse, send and have their messages received;  *)
(* the driver then runs the four sequential passes, one loop iteration per *)
(* step.  dpc is the driver's position: "recv", "sort", "link_export_all", *)
(* "link_modules", "tree_shaking", "built", or "panicked".                 *)

BuildInit ==
  /\ files \in BuildPrograms
  /\ badFiles = {}
  /\ GenerateInit
  /\ UnitInit

workerVars == <<idle_thread_count, lock, chan, workers>>

\* a worker's fetch_job, parse_file and discover_module: the id on top of
\* modules_to_work is taken and, unless it was worked on before, the ids its
\* file names are pushed in the iteration order of the HashSet
ClaimAndDiscover ==
  /\ dpc = "recv"
  /\ modules_to_work # <<>>
  /\ LET id == Last(modules_to_work)
     IN  IF id \in worked_modules
         THEN /\ modules_to_work' = Front(modules_to_work)
              /\ UNCHANGED <<worked_modules, pushed>>
         ELSE \E ord \in Orderings(pre_analyze_sub_modules(id, files[id])) :
                /\ modules_to_work' = Front(modules_to_work) \o ord
                /\ worked_modules' = worked_modules \cup {id}
                /\ pushed' = pushed \cup Range(ord)
  /\ UNCHANGED <<mark_uf, driverVars, workerVars, inputVars, symbolVars, unitVars>>

\* the receive loop on a sequence of messages
RECURSIVE receive_all(_, _)
receive_all(d, msgs) ==
  IF msgs = <<>> THEN d ELSE receive_all(on_message(d, Head(msgs)), Tail(msgs))

\* the rest of a worker's run on the module it claimed (analyze, then the
\* NewDependency messages and NewModule), and the driver receiving them;
\* a worker that panics in generate_statements_from_ctxt sends nothing and
\* never restores idle_thread_count, so the receive loop does not end
RunAndReceive(id) ==
  /\ dpc = "recv"
  /\ id \in worked_modules
  /\ id \notin Range(received)
  /\ \E az \in {analyze(files[id], KeyCount(mark_uf))} :
     \E module \in {NewModuleOf(id, files[id], KeyCount(mark_uf))} :
         /\ ~az.panicked
         /\ mark_is_available(az.statement_context)
         /\ mark_uf' = NewKeys(mark_uf, az.marks - KeyCount(mark_uf))
         /\ \E msgs \in RunMessages(module) :
              LET d == receive_all(DriverState(id_to_module, module_graph,
                                               entry_module_index, received), msgs)
              IN  /\ id_to_module' = d.id_to_module
                  /\ module_graph' = d.module_graph
                  /\ entry_module_index' = d.entry_module_index
                  /\ received' = d.received
  /\ UNCHANGED <<modules_to_work, worked_modules, pushed, dpc, buildVars>>
  /\ UNCHANGED <<workerVars, inputVars, symbolVars, unitVars>>

\* generate returns; sort_modules starts with the entry on its stack
GenerateDone ==
  /\ dpc = "recv"
  /\ modules_to_work = <<>>
  /\ worked_modules \subseteq Range(received)
  /\ dpc' = "sort"
  /\ sort_state' = [NewSort EXCEPT !.stack = <<entry_module_index>>]
  /\ UNCHANGED <<id_to_module, module_graph, entry_module_index, received, cursor,
                 marks_to_include, error>>
  /\ UNCHANGED <<sharedVars, chan, workers, mark_uf, pushed, inputVars, symbolVars, unitVars>>

genVars ==
  <<sharedVars, chan, workers, pushed, inputVars, symbolVars, unitVars, received, entry_module_index>>

SortStep ==
  /\ dpc = "sort"
  /\ sort_state.stack # <<>>
  /\ sort_state' = sort_visit(module_graph, sort_state)
  /\ UNCHANGED <<dpc, id_to_module, module_graph, mark_uf, cursor, marks_to_include, error,
                 genVars>>

\* self.sorted_modules = sorted
SortDone ==
  /\ dpc = "sort"
  /\ sort_state.stack = <<>>
  /\ module_graph' = [module_graph EXCEPT !.sorted_modules = sort_state.sorted]
  /\ dpc' = "link_export_all"
  /\ cursor' = 1
  /\ UNCHANGED <<id_to_module, mark_uf, sort_state, marks_to_include, error, genVars>>

\* link_export_all on the module at `cursor` of the sorted list
LinkExportAllStep ==
  /\ dpc = "link_export_all"
  /\ cursor <= Len(module_graph.sorted_modules)
  /\ LET module_index == module_graph.sorted_modules[cursor]
         r == link_export_all_edges(id_to_module, module_graph, module_index,
                                    get_edges_directed(module_graph, module_index, "Incoming"))
     IN  IF r.ok
         THEN /\ id_to_module' = r.mods
              /\ cursor' = cursor + 1
              /\ UNCHANGED <<dpc, error>>
         ELSE /\ dpc' = "panicked"
              /\ \E local_name \in r.occupied : error' = DuplicatedKey(local_name)
              /\ UNCHANGED <<id_to_module, cursor>>
  /\ UNCHANGED <<module_graph, mark_uf, sort_state, marks_to_include, genVars>>

\* link_modules starts at the end of the sorted list
LinkExportAllDone ==
  /\ dpc = "link_export_all"
  /\ cursor > Len(module_graph.sorted_modules)
  /\ dpc' = "link_modules"
  /\ cursor' = Len(module_graph.sorted_modules)
  /\ UNCHANGED <<id_to_module, module_graph, mark_uf, sort_state, marks_to_include, error,
                 genVars>>

\* link_modules on the module at `cursor` of the sorted list: its imports,
\* then its exports, each in the iteration order of its HashMap
LinkModulesStep ==
  /\ dpc = "link_modules"
  /\ cursor >= 1
  /\ LET source_module == get_module_by_module_index(id_to_module, module_graph,
                                                     module_graph.sorted_modules[cursor])
     IN  \E iord \in Orderings(DOMAIN source_module.imports) :
         \E eord \in Orderings(DOMAIN source_module.exports) :
           LET r == link_imports(mark_uf, id_to_module, source_module, iord)
           IN  IF r.ok
               THEN /\ mark_uf' = link_exports(r.uf, id_to_module, source_module, eord)
                    /\ cursor' = cursor - 1
                    /\ UNCHANGED <<dpc, error>>
               ELSE /\ dpc' = "panicked"
                    /\ error' = r.error
                    /\ UNCHANGED <<mark_uf, cursor>>
  /\ UNCHANGED <<id_to_module, module_graph, sort_state, marks_to_include, genVars>>

\* include_with_tree_shaking starts: the seed set of the entry's exports
LinkModulesDone ==
  /\ dpc = "link_modules"
  /\ cursor = 0
  /\ dpc' = "tree_shaking"
  /\ marks_to_include' =
       entry_export_roots(mark_uf, get_module_by_module_index(id_to_module, module_graph,
                                                              entry_module_index))
  /\ cursor' = 1
  /\ UNCHANGED <<id_to_module, module_graph, mark_uf, sort_state, error, genVars>>

\* include_with_tree_shaking on the node at `cursor` of node_indices(): the
\* mark set is taken by `&mut`, so what one module adds the next ones see
ShakeStep ==
  /\ dpc = "tree_shaking"
  /\ cursor <= Len(module_graph.nodes)
  /\ LET id == get_module_id_by_index(module_graph, cursor)
         r == include_statement_with_mark_set(mark_uf, id_to_module[id].statements,
                                              marks_to_include)
     IN  /\ id_to_module' = [id_to_module EXCEPT ![id].statements = r.statements]
         /\ marks_to_include' = r.mark_set
  /\ cursor' = cursor + 1
  /\ UNCHANGED <<dpc, module_graph, mark_uf, sort_state, error, genVars>>

ShakeDone ==
  /\ dpc = "tree_shaking"
  /\ cursor > Len(module_graph.nodes)
  /\ dpc' = "built"
  /\ UNCHANGED <<id_to_module, module_graph, mark_uf, sort_state, cursor, marks_to_include,
                 error, genVars>>

BuildNext ==
  \/ ClaimAndDiscover
  \/ \E id \in worked_modules : RunAndReceive(id)
  \/ GenerateDone
  \/ SortStep
  \/ SortDone
  \/ LinkExportAllStep
  \/ LinkExportAllDone
  \/ LinkModulesStep
  \/ LinkModulesDone
  \/ ShakeStep
  \/ ShakeDone

BuildSpec == BuildInit /\ [][BuildNext]_vars

----------------------------------------------------------------------------
(* The symbol API under concurrent callers.  Every call of new_mark, union *)
(* and find_root locks SYMBOL_BOX for its duration; new_key reads the      *)
(* length of the table, makes the key of it and pushes the key's entry.    *)

MaxKeys == 4

\* Mutex::lock returns when no caller holds the mutex
MutexOpen(holder) == TRUE

MutexFree(holder) == holder = 0

\* ena's find: every key on the way from a to its root is redirected to it
RECURSIVE compress(_, _)
compress(uf, a) ==
  IF uf.parent[a] = a THEN uf
  ELSE LET root == find_root(uf, a)
       IN  compress([uf EXCEPT !.parent[a] = root], uf.parent[a])

\* values.push(VarValue::new_var(key, ())): the entry at the end of the
\* table, its parent the key
push_key(uf, key) ==
  LET n == KeyCount(uf)
  IN  [parent |-> [i \in 0..n |-> IF i < n THEN uf.parent[i] ELSE key],
       rank |-> [i \in 0..n |-> IF i < n THEN uf.rank[i] ELSE 0]]

MarkInit ==
  /\ files = SingleFile
  /\ badFiles = {}
  /\ GenerateInit
  /\ UnitInit

markRest ==
  <<files, badFiles, sharedVars, chan, workers, pushed, driverVars, unitVars>>

\* SYMBOL_BOX.lock() at the start of a call
SymbolLock(w) ==
  /\ clients[w].pc = "idle"
  /\ MutexFree(symbol_lock)
  /\ \E op \in {"new_mark", "union", "find_root"} :
       /\ op = "new_mark" => KeyCount(mark_uf) < MaxKeys
       /\ op # "new_mark" => KeyCount(mark_uf) > 1
       /\ clients' = [clients EXCEPT ![w].pc = "locked", ![w].op = op]
  /\ symbol_lock' = w
  /\ UNCHANGED <<mark_uf, markRest>>

\* new_key: `let len = self.values.len()`
NewKeyLen(w) ==
  /\ clients[w].pc = "locked"
  /\ clients[w].op = "new_mark"
  /\ clients' = [clients EXCEPT ![w].pc = "len_read", ![w].len = KeyCount(mark_uf)]
  /\ UNCHANGED <<mark_uf, symbol_lock, markRest>>

\* new_key: the key made of `len as u32` is pushed and returned, and the
\* guard of the mutex is dropped (the cast keeps every length below 2^32,
\* and the table holds at most MaxKeys keys here)
NewKeyPush(w) ==
  /\ clients[w].pc = "len_read"
  /\ LET key == clients[w].len
     IN  /\ mark_uf' = push_key(mark_uf, key)
         /\ clients' = [clients EXCEPT ![w].pc = "idle", ![w].op = None,
                                       ![w].returned = Append(@, key)]
  /\ symbol_lock' = 0
  /\ UNCHANGED markRest

\* SymbolBox::union on two marks handed out before
SymbolUnion(w) ==
  /\ clients[w].pc = "locked"
  /\ clients[w].op = "union"
  /\ \E a, b \in 1..(KeyCount(mark_uf) - 1) :
       mark_uf' = union(compress(compress(mark_uf, a), b), a, b)
  /\ clients' = [clients EXCEPT ![w].pc = "idle", ![w].op = None]
  /\ symbol_lock' = 0
  /\ UNCHANGED markRest

\* SymbolBox::find_root on a mark handed out before
SymbolFindRoot(w) ==
  /\ clients[w].pc = "locked"
  /\ clients[w].op = "find_root"
  /\ \E a \in 1..(KeyCount(mark_uf) - 1) : mark_uf' = compress(mark_uf, a)
  /\ clients' = [clients EXCEPT ![w].pc = "idle", ![w].op = None]
  /\ symbol_lock' = 0
  /\ UNCHANGED markRest

MarkNext ==
  \E w \in Workers :
    \/ SymbolLock(w)
    \/ NewKeyLen(w)
    \/ NewKeyPush(w)
    \/ SymbolUnion(w)
    \/ SymbolFindRoot(w)

MarkSpec == MarkInit /\ [][MarkNext]_vars

\* The runs of Dtsup::build and Dtsup::generate on files that hold no
\* error: the driver and the workers keep taking the steps they can take.
RoundTripPrograms == {SingleFile, Aliased, AliasChain, Shake, NamespaceExport}

BuildFairInit ==
  /\ files \in RoundTripPrograms
  /\ badFiles = {}
  /\ GenerateInit
  /\ UnitInit

BuildFairSpec == BuildFairInit /\ [][BuildNext]_vars /\ WF_vars(BuildNext)

----------------------------------------------------------------------------
(* utils::resolve_id on every path of at most MaxPathLen characters, and   *)
(* again on what it returned.                                              *)

MaxPathLen == 6

MaxResolves == 3

PathChars == {"a", ".", "d", "t", "s"}

RECURSIVE Paths(_)
Paths(n) ==
  IF n = 0 THEN {<<>>}
  ELSE LET shorter == Paths(n - 1)
       IN  shorter \cup {Append(p, c) : p \in {q \in shorter : Len(q) = n - 1}, c \in PathChars}

ResolveInit ==
  /\ files = SingleFile
  /\ badFiles = {}
  /\ GenerateInit
  /\ joined \in Paths(MaxPathLen)
  /\ resolved = <<>>
  /\ added = <<>>
  /\ analyzer = NewAnalyzer(1)
  /\ generated = NotGenerated

ResolveId ==
  /\ Len(resolved) < MaxResolves
  /\ resolved' = Append(resolved, resolve_id(IF resolved = <<>> THEN joined ELSE Last(resolved)))
  /\ UNCHANGED <<joined, added, analyzer, generated, files, badFiles, sharedVars, chan,
                 workers, mark_uf, pushed, driverVars, symbolVars>>

ResolveSpec == ResolveInit /\ [][ResolveId]_vars

----------------------------------------------------------------------------
(* Graph::generate with the driver that polls (src/graph.rs): its loop     *)
(* runs while modules_to_work is not empty or idle_thread_count is not N,  *)
(* and each iteration tries once to take a message from the channel.  The  *)
(* workers are the same tasks; a send on the channel whose receiver is     *)
(* gone returns an error that this worker ignores.                         *)

PollPrograms == {SingleFile, Chain}

PollInit ==
  /\ files \in PollPrograms
  /\ badFiles = {}
  /\ GenerateInit
  /\ UnitInit

pollRest == <<sharedVars, workers, mark_uf, pushed, inputVars, symbolVars, unitVars, buildVars>>

\* `!modules_to_work.lock().unwrap().is_empty()`, the left operand of `||`
PollPending ==
  /\ dpc = "recv"
  /\ lock = 0
  /\ dpc' = IF modules_to_work # <<>> THEN "try_recv" ELSE "poll_idle"
  /\ UNCHANGED <<chan, id_to_module, module_graph, entry_module_index, received, pollRest>>

\* `idle_thread_count.load(Ordering::SeqCst) != num_of_threads`, the right
\* operand, evaluated when the left one is false; the loop ends when it is
\* false too, and `rx` is dropped with the function's return
PollIdle ==
  /\ dpc = "poll_idle"
  /\ dpc' = IF idle_thread_count # NumWorkers THEN "try_recv" ELSE "done"
  /\ UNCHANGED <<chan, id_to_module, module_graph, entry_module_index, received, pollRest>>

\* `if let Ok(worker_message) = rx.try_recv()`: the message at the head of
\* the channel if there is one, nothing otherwise
TryRecv ==
  /\ dpc = "try_recv"
  /\ IF chan # <<>>
     THEN LET d == on_message(DriverState(id_to_module, module_graph, entry_module_index,
                                           received), Head(chan))
          IN  /\ chan' = Tail(chan)
              /\ id_to_module' = d.id_to_module
              /\ module_graph' = d.module_graph
              /\ entry_module_index' = d.entry_module_index
              /\ received' = d.received
     ELSE UNCHANGED <<chan, id_to_module, module_graph, entry_module_index, received>>
  /\ dpc' = "recv"
  /\ UNCHANGED pollRest

\* resp_tx.send(..).await on a channel whose receiver is dropped: Err, not
\* looked at, and the message is gone
SendClosed(w) ==
  /\ workers[w].pc = "send"
  /\ dpc = "done"
  /\ workers' = [workers EXCEPT ![w].outbox = Tail(@),
                                ![w].pc = IF Len(workers[w].outbox) = 1 THEN "incr" ELSE "send",
                                ![w].job = IF Len(workers[w].outbox) = 1 THEN NoId ELSE @]
  /\ UNCHANGED <<sharedVars, chan, mark_uf, pushed, driverVars, inputVars, symbolVars, unitVars>>

PollNext ==
  \/ \E w \in Workers : WorkerStep(w)
  \/ \E w \in Workers : SendClosed(w)
  \/ PollPending
  \/ PollIdle
  \/ TryRecv

PollSpec == PollInit /\ [][PollNext]_vars

----------------------------------------------------------------------------
(* The ModuleGraph on its own: add_module, get_or_add_module and add_edge  *)
(* called in any order on a few ids, from the graph that Graph::generate   *)
(* starts with.                                                            *)

MaxNodes == 4

MaxEdges == 2

GraphIds == {Index, FileA, FileB}

GraphInit ==
  /\ files = SingleFile
  /\ badFiles = {}
  /\ GenerateInit
  /\ UnitInit

graphRest ==
  <<files, badFiles, sharedVars, chan, workers, mark_uf, pushed, dpc, id_to_module,
    entry_module_index, received, buildVars, symbolVars, joined, resolved, analyzer,
    generated>>

AddModule ==
  /\ Len(module_graph.nodes) < MaxNodes
  /\ \E id \in GraphIds :
       /\ module_graph' = add_module(module_graph, id)
       /\ added' = Append(added, [module_id |-> id,
                                  module_index |-> add_module_index(module_graph, id)])
  /\ UNCHANGED graphRest

GetOrAddModule ==
  /\ Len(module_graph.nodes) < MaxNodes
  /\ \E id \in GraphIds : module_graph' = get_or_add_module(module_graph, id)
  /\ module_graph' # module_graph
  /\ UNCHANGED <<added, graphRest>>

AddEdge ==
  /\ Len(module_graph.edges) < MaxEdges
  /\ \E from, to \in DOMAIN module_graph.nodes :
       module_graph' = add_edge(module_graph, from, to, "Import", Len(module_graph.edges))
  /\ UNCHANGED <<added, graphRest>>

GraphNext ==
  \/ AddModule
  \/ GetOrAddModule
  \/ AddEdge

GraphSpec == GraphInit /\ [][GraphNext]_vars

----------------------------------------------------------------------------
(* Module::analyze and Module::generate_statements_from_ctxt on one file,  *)
(* one top-level statement at a time.  The file is a sequence of at most   *)
(* MaxBody statements drawn from declarations of every kind, with and      *)
(* without type parameters, exported or not, and an import.                *)

MaxBody == 3

AnalyzerItems ==
  {\* interface A {}
   InterfaceDecl("A", <<>>),
   \* export interface A { p: B }
   ExportInterface("A", <<"B">>),
   \* interface G<T> { x: T; a: A }
   Declaration("Decl", "interface", "G", <<"T">>, <<"T", "A">>, <<>>),
   \* export interface B extends A { g: G[]; u: A | G; t: [A] }
   Declaration("ExportDecl", "interface", "B", <<>>, <<>>,
               <<TypeRef("extends", "A"), TypeRef("array", "G"), TypeRef("union", "A"),
                 TypeRef("union", "G"), TypeRef("tuple", "A")>>),
   \* type U = A | B
   Declaration("Decl", "type", "U", <<>>, <<>>,
               <<TypeRef("union", "A"), TypeRef("union", "B")>>),
   \* export type A = { p: B }
   Declaration("ExportDecl", "type", "A", <<>>, <<>>, <<TypeRef("literal", "B")>>),
   \* declare function f<T>(): void
   Declaration("Decl", "function", "f", <<"T">>, <<>>, <<>>),
   \* export declare class K<T> {}
   Declaration("ExportDecl", "class", "K", <<"T">>, <<>>, <<>>),
   \* declare enum E {}
   Declaration("Decl", "enum", "E", <<>>, <<>>, <<>>),
   \* export declare const v: A
   Declaration("ExportDecl", "var", "v", <<>>, <<"A">>, <<>>),
   \* declare namespace N {}
   Declaration("Decl", "namespace", "N", <<>>, <<>>, <<>>),
   \* import { B } from "./a"
   ImportOne(SrcA, "B")}

RECURSIVE Bodies(_)
Bodies(n) ==
  IF n = 0 THEN {<<>>}
  ELSE LET shorter == Bodies(n - 1)
       IN  shorter \cup {Append(b, st) : b \in {q \in shorter : Len(q) = n - 1},
                                         st \in AnalyzerItems}

AnalyzeInit ==
  /\ files \in {[f \in {Index} |-> body] : body \in Bodies(MaxBody) \ {<<>>}}
  /\ badFiles = {}
  /\ GenerateInit
  /\ UnitInit

analyzeRest ==
  <<files, badFiles, sharedVars, chan, workers, mark_uf, pushed, driverVars, symbolVars,
    joined, resolved, added>>

\* visit_mut_module_item on the next statement of the file
VisitModuleItem ==
  /\ ~analyzer.panicked
  /\ Len(analyzer.statement_context) < Len(files[Index])
  /\ analyzer' = visit_mut_module_item(analyzer,
                                       files[Index][Len(analyzer.statement_context) + 1])
  /\ UNCHANGED <<generated, analyzeRest>>

\* generate_statements_from_ctxt on the contexts of the analyzed file:
\* `ctxt.mark.expect(..)` panics on a context without a mark
GenerateStatements ==
  /\ ~analyzer.panicked
  /\ ~generated.done
  /\ Len(analyzer.statement_context) = Len(files[Index])
  /\ generated' =
       IF mark_is_available(analyzer.statement_context)
       THEN [done |-> TRUE, ok |-> TRUE,
             statements |-> generate_statements_from_ctxt(analyzer.statement_context)]
       ELSE [done |-> TRUE, ok |-> FALSE, statements |-> <<>>]
  /\ UNCHANGED <<analyzer, analyzeRest>>

AnalyzeNext ==
  \/ VisitModuleItem
  \/ GenerateStatements

AnalyzeSpec == AnalyzeInit /\ [][AnalyzeNext]_vars

----------------------------------------------------------------------------
(* Graph::build from its first step to its last, as the run of a single    *)
(* worker makes it: a module is claimed, analysed and its messages are     *)
(* received before the next one is claimed.  `prio` is the order in which  *)
(* discovered ids are pushed (the iteration order of the HashSets), fs the *)
(* files.                                                                  *)

RECURSIVE generate_alone(_, _, _, _, _, _)
generate_alone(fs, prio, stack, worked, uf, d) ==
  IF stack = <<>> THEN [mark_uf |-> uf, d |-> d]
  ELSE LET id == Last(stack)
           discovered == pre_analyze_sub_modules(id, fs[id])
           az == analyze(fs[id], KeyCount(uf))
           msgs == CHOOSE m \in RunMessages(NewModuleOf(id, fs[id], KeyCount(uf))) : TRUE
       IN  IF id \in worked
           THEN generate_alone(fs, prio, Front(stack), worked, uf, d)
           ELSE generate_alone(fs, prio,
                               Front(stack) \o SelectSeq(prio, LAMBDA x : x \in discovered),
                               worked \cup {id},
                               NewKeys(uf, az.marks - KeyCount(uf)),
                               receive_all(d, msgs))

\* ModuleGraph::sort_modules: the loop run until the stack is empty
RECURSIVE sort_modules(_, _)
sort_modules(g, st) ==
  IF st.stack = <<>> THEN st.sorted ELSE sort_modules(g, sort_visit(g, st))

\* Graph::link_modules from position i of the sorted list down to the first
RECURSIVE link_modules(_, _, _, _)
link_modules(uf, mods, g, i) ==
  IF i = 0 THEN [ok |-> TRUE, uf |-> uf, error |-> None]
  ELSE LET source_module == get_module_by_module_index(mods, g, g.sorted_modules[i])
           iord == CHOOSE o \in Orderings(DOMAIN source_module.imports) : TRUE
           eord == CHOOSE o \in Orderings(DOMAIN source_module.exports) : TRUE
           r == link_imports(uf, mods, source_module, iord)
       IN  IF r.ok
           THEN link_modules(link_exports(r.uf, mods, source_module, eord), mods, g, i - 1)
           ELSE r

\* Graph::include_with_tree_shaking from node i of node_indices() on
RECURSIVE include_with_tree_shaking(_, _, _, _, _)
include_with_tree_shaking(uf, mods, g, mark_set, i) ==
  IF i > Len(g.nodes) THEN mods
  ELSE LET id == get_module_id_by_index(g, i)
           r == include_statement_with_mark_set(uf, mods[id].statements, mark_set)
       IN  include_with_tree_shaking(uf, [mods EXCEPT ![id].statements = r.statements],
                                     g, r.mark_set, i + 1)

Graph_build(fs, prio) ==
  LET gen == generate_alone(fs, prio, <<resolved_entry>>, {}, NewSymbolBox,
                            DriverState(EmptyMap, add_module(NewModuleGraph, resolved_entry),
                                        1, <<>>))
      sorted == sort_modules(gen.d.module_graph,
                             [NewSort EXCEPT !.stack = <<gen.d.entry_module_index>>])
      g == [gen.d.module_graph EXCEPT !.sorted_modules = sorted]
      flat == link_export_all(gen.d.id_to_module, g, 1)
      linked == link_modules(gen.mark_uf, flat.mods, g, Len(sorted))
      entry_module == get_module_by_module_index(flat.mods, g, gen.d.entry_module_index)
  IN  IF ~flat.ok \/ ~linked.ok THEN [ok |-> FALSE, id_to_module |-> flat.mods]
      ELSE [ok |-> TRUE,
            id_to_module |->
              include_with_tree_shaking(linked.uf, flat.mods, g,
                                        entry_export_roots(linked.uf, entry_module), 1)]


----------------------------------------------------------------------------
(* Dtsup::generate_with_graph and the Finalizer: the output is the folded  *)
(* declaration statements and the terminal export statement.               *)

\* Dtsup::generate_build_result: the included declaration statements of the
\* sorted modules, a module that occurs again in the list being skipped
RECURSIVE generate_build_result(_, _, _, _)
generate_build_result(mods, g, i, visited) ==
  IF i > Len(g.sorted_modules) THEN <<>>
  ELSE LET module_index == g.sorted_modules[i]
           id == get_module_id_by_index(g, module_index)
           positions == SeqOf({k \in DOMAIN mods[id].statements :
                                 /\ mods[id].statements[k].kind = "DeclStatement"
                                 /\ mods[id].statements[k].included})
       IN  IF module_index \in visited
           THEN generate_build_result(mods, g, i + 1, visited)
           ELSE [k \in DOMAIN positions |-> <<id, positions[k]>>]
                \o generate_build_result(mods, g, i + 1, visited \cup {module_index})

\* Graph::get_top_level_exports: the exports of the entry module, flattened
get_top_level_exports(mods, g, entry) == get_module_by_module_index(mods, g, entry).exports

\* one specifier `orig as exported` of the terminal export statement
Specifier(export) == [orig |-> export.original_ident, exported |-> export.exported_name]

\* Finalizer::generate_exports: a specifier per Name export, none for a
\* Namespace export
generate_exports(top_level_exports) ==
  {Specifier(top_level_exports[n]) :
     n \in {x \in DOMAIN top_level_exports : top_level_exports[x].kind = "Name"}}

\* Finalizer::fold_module_item: an exported or default-exported interface
\* becomes the plain declaration, a statement stays, the rest is dropped
fold_module_item(st) ==
  IF st.kind \in {"Decl", "ExportDecl", "ExportDefaultDecl"}
  THEN InterfaceDecl(st.name, st.refs)
  ELSE None

\* Dtsup::generate_with_graph: the emitted module
generate_with_graph(fs, mods, g, entry) ==
  LET decl_statement == generate_build_result(mods, g, 1, {})
  IN  [body |-> [k \in DOMAIN decl_statement |->
                   fold_module_item(fs[decl_statement[k][1]][decl_statement[k][2]])],
       from |-> decl_statement,
       exports |-> generate_exports(get_top_level_exports(mods, g, entry))]

----------------------------------------------------------------------------
(* Properties of Graph::build.                                             *)

AfterSort == dpc \in {"link_export_all", "link_modules", "tree_shaking", "built"}

AfterLink == dpc \in {"tree_shaking", "built"}

\* the nodes that the edges of the graph lead to from the nodes of S
RECURSIVE GraphReachable(_, _)
GraphReachable(g, S) ==
  LET T == S \cup {g.edges[i].to : i \in {j \in DOMAIN g.edges : g.edges[j].from \in S}}
  IN  IF T = S THEN S ELSE GraphReachable(g, T)

FromEntry == GraphReachable(module_graph, {entry_module_index})

\* the position of the first occurrence of x in seq, 0 when there is none
FirstIndex(seq, x) ==
  IF x \in Range(seq)
  THEN CHOOSE i \in DOMAIN seq : seq[i] = x /\ \A j \in 1..(i - 1) : seq[j] # x
  ELSE 0

Precedes(seq, v, u) ==
  /\ FirstIndex(seq, v) > 0
  /\ FirstIndex(seq, u) > 0
  /\ FirstIndex(seq, v) < FirstIndex(seq, u)

\* the declaration statements of all modules, as <<module id, position>>
Decls ==
  {p \in UNION {{<<id, i>> : i \in DOMAIN id_to_module[id].statements} :
                id \in DOMAIN id_to_module} :
     id_to_module[p[1]].statements[p[2]].kind = "DeclStatement"}

StatementAt(p) == id_to_module[p[1]].statements[p[2]]

Root(mark) == find_root(mark_uf, mark)

\* the Name import bindings of `module` whose target module exports the name
LinkableImports(module) ==
  {n \in DOMAIN module.imports :
     /\ module.imports[n].ident = "Name"
     /\ module.imports[n].original_ident
          \in DOMAIN id_to_module[module.src_to_resolved_id[module.imports[n].src]].exports}

TargetExport(module, n) ==
  id_to_module[module.src_to_resolved_id[module.imports[n].src]]
    .exports[module.imports[n].original_ident]

ImportsLinked(module) ==
  \A n \in LinkableImports(module) :
     Root(module.imports[n].mark) = Root(TargetExport(module, n).mark)

SortedModules ==
  {get_module_by_module_index(id_to_module, module_graph, module_graph.sorted_modules[i]) :
     i \in DOMAIN module_graph.sorted_modules}

\* C5 (as claimed): after link_modules, every Name import binding of every
\* module whose target module exports the name has the root of that export.
C5_Claim ==
  AfterLink => \A id \in DOMAIN id_to_module : ImportsLinked(id_to_module[id])

\* C5 (amended): after link_modules, every Name import binding of every
\* module of the sorted list whose target module exports the name has the
\* root of that export.
C5_SortedLinked ==
  AfterLink => \A module \in SortedModules : ImportsLinked(module)

\* an aliased import of a sorted module is linked to an export that has a
\* mark of its own
C5_Witness ==
  /\ AfterLink
  /\ \E module \in SortedModules : \E n \in LinkableImports(module) :
       /\ module.imports[n].original_ident # n
       /\ module.imports[n].mark # TargetExport(module, n).mark
       /\ Root(module.imports[n].mark) = Root(TargetExport(module, n).mark)

\* C6 (as claimed): after linking, the marks of two different declaration
\* statements are never in the same union-find class.
C6_Claim ==
  AfterLink =>
     \A p, q \in Decls : p # q => Root(StatementAt(p).mark) # Root(StatementAt(q).mark)

\* C7 (as claimed): after tree-shaking, every declaration statement whose
\* mark has the root of a mark read by an included declaration statement is
\* included.
C7_Claim ==
  (dpc = "built") =>
     \A p, q \in Decls :
        (/\ StatementAt(p).included
         /\ \E m \in StatementAt(p).reads : Root(m) = Root(StatementAt(q).mark))
        => StatementAt(q).included

\* the least set of roots that holds the roots of the entry's export marks
\* and the roots of the reads of every declaration whose root it holds
RECURSIVE LeastClosed(_)
LeastClosed(R) ==
  LET T == R \cup {Root(m) : m \in UNION {StatementAt(p).reads :
                                           p \in {q \in Decls : Root(StatementAt(q).mark) \in R}}}
  IN  IF T = R THEN R ELSE LeastClosed(T)

EntryRoots ==
  {Root(e.mark) :
     e \in Range(get_module_by_module_index(id_to_module, module_graph,
                                            entry_module_index).exports)}

\* C8: while and after tree-shaking runs, a declaration statement is
\* included only if the root of its mark is in the least set that holds the
\* roots of the entry's export marks and is closed under the reads.
C8_OnlyReachable ==
  (dpc \in {"tree_shaking", "built"}) =>
     \A p \in Decls : StatementAt(p).included => Root(StatementAt(p).mark) \in LeastClosed(EntryRoots)

\* tree-shaking has ended with a declaration included for a read of another
\* module (it is no export of the entry) and a declaration left out
C8_Witness ==
  /\ dpc = "built"
  /\ \E p, q \in Decls :
       /\ StatementAt(p).included
       /\ Root(StatementAt(p).mark) \notin EntryRoots
       /\ ~StatementAt(q).included

\* C9 (as claimed): sort_modules puts every module that the edges lead to
\* from the entry into the sorted list exactly once.
C9_Claim ==
  AfterSort => \A n \in FromEntry : Count(module_graph.sorted_modules, n) = 1

\* C10 (as claimed): in the sorted list, for every edge u -> v between
\* modules reachable from the entry, v comes before u.
C10_Claim ==
  AfterSort =>
     \A i \in DOMAIN module_graph.edges :
        module_graph.edges[i].from \in FromEntry =>
           Precedes(module_graph.sorted_modules, module_graph.edges[i].to,
                    module_graph.edges[i].from)

\* the edges u -> v that lie on no cycle: u is not reachable from v
AcyclicEdges ==
  {i \in DOMAIN module_graph.edges :
     module_graph.edges[i].from
        \notin GraphReachable(module_graph, {module_graph.edges[i].to})}

\* C10 (amended): in the sorted list, for every edge u -> v between modules
\* reachable from the entry such that u is not reachable from v, the first
\* occurrence of v comes before the first occurrence of u.
C10_AcyclicOrder ==
  AfterSort =>
     \A i \in AcyclicEdges :
        module_graph.edges[i].from \in FromEntry =>
           Precedes(module_graph.sorted_modules, module_graph.edges[i].to,
                    module_graph.edges[i].from)

\* the sort has ended on a graph with an edge on no cycle whose target has
\* several incoming edges
C10_Witness ==
  /\ AfterSort
  /\ \E i \in AcyclicEdges :
       /\ module_graph.edges[i].from \in FromEntry
       /\ \E j \in DOMAIN module_graph.edges :
            /\ j # i
            /\ module_graph.edges[j].to = module_graph.edges[i].to
       /\ Precedes(module_graph.sorted_modules, module_graph.edges[i].to,
                   module_graph.edges[i].from)


----------------------------------------------------------------------------
(* Failures of the linker.                                                 *)

\* the Name import bindings of `module` whose target module, flattened,
\* does not export the name
MissingImports(module) ==
  {n \in DOMAIN module.imports :
     /\ module.imports[n].ident = "Name"
     /\ module.imports[n].original_ident
          \notin DOMAIN id_to_module[module.src_to_resolved_id[module.imports[n].src]].exports}

\* the "linking failed" panic names a missing name of a module of `modules`
\* and the id of the module it is imported from
NamesMissingImport(modules) ==
  (dpc = "panicked" /\ error.kind = "linking failed") =>
     \E module \in modules : \E n \in MissingImports(module) :
        /\ error.name = module.imports[n].original_ident
        /\ error.module = module.src_to_resolved_id[module.imports[n].src]

\* C11 (as claimed): when any module imports a name that the flattened
\* exports of the target module do not hold, link_modules does not complete
\* (no tree-shaking, no output), and its panic names the name and the id
\* of the target module.
C11_Claim ==
  /\ AfterLink => \A id \in DOMAIN id_to_module : MissingImports(id_to_module[id]) = {}
  /\ NamesMissingImport({id_to_module[id] : id \in DOMAIN id_to_module})

\* C11 (amended): when a module of the sorted list imports a name that the
\* flattened exports of the target module do not hold, link_modules does
\* not complete (no tree-shaking, no output), and its panic names such a
\* name and the id of the module it is imported from.
C11_MissingExportFatal ==
  /\ AfterLink => \A module \in SortedModules : MissingImports(module) = {}
  /\ NamesMissingImport(SortedModules)

\* index imports X from a, which exports A only: the run stops in
\* link_modules with the panic that names X and a
C11_Witness ==
  /\ dpc = "panicked"
  /\ error = [kind |-> "linking failed", name |-> "X", module |-> FileA]
  /\ \E module \in SortedModules : "X" \in MissingImports(module)

\* the `export { n as b } from src` entries of `module` whose target module,
\* flattened, does not export n
MissingReexports(module) ==
  {i \in DOMAIN module.local_exports :
     /\ module.local_exports[i].kind = "Name"
     /\ module.local_exports[i].src # NoSrc
     /\ module.local_exports[i].original_ident
          \notin DOMAIN id_to_module[module.src_to_resolved_id[module.local_exports[i].src]]
                          .exports}

\* C12 (as claimed): when a module of the sorted list re-exports by name a
\* name that the flattened exports of the target module do not hold, the
\* run fails in link_modules: it reaches neither tree-shaking nor output.
C12_Claim ==
  AfterLink => \A module \in SortedModules : MissingReexports(module) = {}

AfterFlatten == dpc \in {"link_modules", "tree_shaking", "built"}

\* the modules that `module` re-exports whole with `export * from`
ExportAllSources(module) ==
  {module.src_to_resolved_id[module.local_exports[i].src] :
     i \in {j \in DOMAIN module.local_exports : module.local_exports[j].kind = "All"}}

\* C13 (as claimed): when two different `export *` sources of a module of
\* the sorted list both export a name, link_export_all does not complete
\* (no linking of marks, no tree-shaking, no output), and its panic names
\* a name that a source and the re-exporting module both hold.
C13_Claim ==
  /\ AfterFlatten =>
        \A module \in SortedModules : \A e1, e2 \in ExportAllSources(module) :
           e1 # e2 => DOMAIN id_to_module[e1].exports \cap DOMAIN id_to_module[e2].exports = {}
  /\ (dpc = "panicked" /\ error.kind = "duplicated key detected") =>
        \E id \in DOMAIN id_to_module : \E e \in ExportAllSources(id_to_module[id]) :
           /\ error.name \in DOMAIN id_to_module[e].exports
           /\ error.name \in DOMAIN id_to_module[id].exports

\* C14 (as claimed): link_export_all run once more on the graph it has
\* flattened completes and leaves the exports of every module as they are.
C14_Claim ==
  AfterFlatten =>
    LET again == link_export_all(id_to_module, module_graph, 1)
    IN  /\ again.ok
        /\ \A id \in DOMAIN id_to_module : again.mods[id].exports = id_to_module[id].exports


----------------------------------------------------------------------------
(* Two runs whose entry files differ in what they export.                  *)

\* the statement with its export taken away: the declaration stays, a
\* re-export becomes an import of the same file for its side effects
Unexported(st) ==
  CASE st.kind = "ExportDecl" -> InterfaceDecl(st.name, st.refs)
    [] st.kind = "ExportNamed" /\ st.src # NoSrc -> ImportDecl(st.src, <<>>)
    [] st.kind = "ExportAll" -> ImportDecl(st.src, <<>>)
    [] OTHER -> st

\* the declaration statements that a run has included
IncludedOf(mods) ==
  {p \in UNION {{<<id, i>> : i \in DOMAIN mods[id].statements} : id \in DOMAIN mods} :
     /\ mods[p[1]].statements[p[2]].kind = "DeclStatement"
     /\ mods[p[1]].statements[p[2]].included}

\* C15 (as claimed): a run includes every declaration statement that a run
\* over the same files includes when one statement of the entry does not
\* export (the entry's exports of that run are a subset).
C15_Claim ==
  dpc = "built" =>
    \A k \in DOMAIN files[Index] : \A prio \in Orderings(DOMAIN files) :
       LET first == Graph_build([files EXCEPT ![Index][k] = Unexported(@)], prio)
       IN  first.ok => IncludedOf(first.id_to_module) \subseteq IncludedOf(id_to_module)


----------------------------------------------------------------------------
(* The output.                                                             *)

Output == generate_with_graph(files, id_to_module, module_graph, entry_module_index)

\* the declaration statements of the output, each as <<module id, position>>
OutputDecls == Range(generate_build_result(id_to_module, module_graph, 1, {}))

\* the exports of the entry module, which seed the tree-shaking
EntryExports ==
  get_module_by_module_index(id_to_module, module_graph, entry_module_index).exports

\* the `export default interface` statements of the modules received
DefaultDecls ==
  {p \in UNION {{<<id, i>> : i \in DOMAIN files[id]} : id \in DOMAIN id_to_module} :
     files[p[1]][p[2]].kind = "ExportDefaultDecl"}

\* C16 (as claimed): the export entry `default` of a module has the mark of
\* the declaration that `export default` exports; and in the built state,
\* when an export of the entry is linked to that entry, the declaration is
\* in the output and the terminal specifier names it.
C16_Claim ==
  \A p \in DefaultDecls :
     LET default == id_to_module[p[1]].exports["default"]
     IN  /\ default.mark = StatementAt(p).mark
         /\ dpc = "built" =>
               \A n \in DOMAIN EntryExports :
                  Root(EntryExports[n].mark) = Root(default.mark) =>
                     /\ p \in OutputDecls
                     /\ Specifier(EntryExports[n]).orig = files[p[1]][p[2]].name

\* C17 (as claimed): on the files entry -> a -> b -> a, b declaring Z and
\* the chain re-exporting it, no pass of the build panics, each of the three
\* modules occurs once in the sorted list, and the declaration of Z occurs
\* once among the declarations of the output.
C17_Claim ==
  files \in CyclePrograms =>
    /\ dpc # "panicked"
    /\ AfterSort =>
          \A id \in {Index, FileA, FileB} :
             Count(module_graph.sorted_modules, module_graph.module_id_to_index[id]) = 1
    /\ dpc = "built" =>
          Count(generate_build_result(id_to_module, module_graph, 1, {}), <<FileB, 2>>) = 1

TopLevelExports == get_top_level_exports(id_to_module, module_graph, entry_module_index)

\* C18 (as claimed): in the built state, the specifier made from a Name
\* export of the entry has as orig the name of a declaration statement of
\* the output whose mark is in the union-find class of the export's mark.
C18_Claim ==
  dpc = "built" =>
    \A n \in {x \in DOMAIN TopLevelExports : TopLevelExports[x].kind = "Name"} :
       \E p \in OutputDecls :
          /\ Root(StatementAt(p).mark) = Root(TopLevelExports[n].mark)
          /\ files[p[1]][p[2]].name = Specifier(TopLevelExports[n]).orig

\* the names that the emitted module exports: its declarations are plain
\* statements, so these are the exported names of the terminal statement
OutputExportedNames == {sp.exported : sp \in Output.exports}

\* the names that the statements of the entry file export, `export *` aside
EntryFileExportedNames ==
  UNION {CASE st.kind = "ExportDecl" -> {st.name}
           [] st.kind = "ExportDefaultDecl" -> {"default"}
           [] st.kind = "ExportNamespace" -> {st.name}
           [] st.kind = "ExportNamed" -> {st.specs[i].as : i \in DOMAIN st.specs}
           [] OTHER -> {} : st \in Range(files[Index])}

\* C19 (as claimed): the run on files without an error emits an output
\* whose exported names are the names of the entry module's flattened
\* exports, the names of `export * as N from` among them.
C19_Claim ==
  <>(/\ dpc = "built"
     /\ OutputExportedNames = DOMAIN TopLevelExports
     /\ EntryFileExportedNames \subseteq OutputExportedNames)


----------------------------------------------------------------------------
(* The marks of new_mark.                                                  *)

\* the calls of new_mark that have returned, each as <<caller, position>>
Returned ==
  UNION {{<<w, i>> : i \in DOMAIN clients[w].returned} : w \in Workers}

MarkOf(c) == clients[c[1]].returned[c[2]]

\* C20: however the new_mark, union and find_root calls of the callers
\* interleave, no call of new_mark returns mark 0 and no two calls return
\* the same mark.
C20_FreshMarks ==
  /\ \A c \in Returned : MarkOf(c) # NoMark
  /\ \A c, d \in Returned : c # d => MarkOf(c) # MarkOf(d)

\* both callers have been handed marks, one of them before and after the
\* other, and a union has made one mark the parent of another
C20_Witness ==
  /\ Len(clients[1].returned) >= 2
  /\ Len(clients[2].returned) >= 1
  /\ clients[1].returned[1] < clients[2].returned[1]
  /\ clients[2].returned[1] < clients[1].returned[2]
  /\ \E k \in DOMAIN mark_uf.parent : mark_uf.parent[k] # k

----------------------------------------------------------------------------
(* utils::resolve_id.                                                      *)

\* C21: resolve_id returns an id that ends in `.d.ts`: its input when that
\* ends in `.d.ts`, its input followed by `.ts` when that ends in `.d`,
\* its input followed by `.d.ts` otherwise; and called on an id it has
\* returned, it returns that id.
C21_Resolved ==
  /\ \A i \in DOMAIN resolved : ends_with(resolved[i], DTs)
  /\ resolved # <<>> =>
       /\ ends_with(joined, DTs) => resolved[1] = joined
       /\ (~ends_with(joined, DTs) /\ ends_with(joined, <<".", "d">>)) =>
            resolved[1] = joined \o <<".", "t", "s">>
       /\ (~ends_with(joined, DTs) /\ ~ends_with(joined, <<".", "d">>)) =>
            resolved[1] = joined \o DTs
  /\ \A i \in DOMAIN resolved : i > 1 => resolved[i] = resolved[i - 1]

\* a path ending in `.d` resolved, and the result resolved again
C21_Witness ==
  /\ Len(resolved) >= 2
  /\ ends_with(joined, <<".", "d">>)
  /\ resolved[1] = joined \o <<".", "t", "s">>
  /\ resolved[2] = resolved[1]

----------------------------------------------------------------------------
(* The polling driver.                                                     *)

\* C22 (as claimed): when the polling driver leaves its loop it has taken
\* every message a worker has sent, and it holds the modules that the
\* driver receiving until the channel closes ends with: every module
\* reachable from the entry.
C22_Claim ==
  dpc = "done" =>
    /\ chan = <<>>
    /\ ReachableIds \subseteq DOMAIN id_to_module

----------------------------------------------------------------------------
(* The duplicated key of link_export_all.                                  *)

\* the names that the modules of S export, their own and, through every
\* `export *`, those of the modules they re-export whole
RECURSIVE StarClosure(_)
StarClosure(S) ==
  LET T == S \cup UNION {ExportAllSources(id_to_module[id]) : id \in S \cap DOMAIN id_to_module}
  IN  IF T = S THEN S ELSE StarClosure(T)

OwnExportedNames(module) ==
  {module.local_exports[i].exported_name :
     i \in {j \in DOMAIN module.local_exports : module.local_exports[j].kind # "All"}}

ExpandedNames(id) ==
  UNION {OwnExportedNames(id_to_module[e]) : e \in StarClosure({id}) \cap DOMAIN id_to_module}

\* C23 (as claimed): link_export_all panics on a duplicated key only when
\* two different `export *` sources of one module both contribute the
\* name; a single `export *` source that other edges lead to as well does
\* not make it panic.
C23_Claim ==
  (dpc = "panicked" /\ error.kind = "duplicated key detected") =>
     \E id \in DOMAIN id_to_module : \E e1, e2 \in ExportAllSources(id_to_module[id]) :
        /\ e1 # e2
        /\ error.name \in ExpandedNames(e1) \cap ExpandedNames(e2)

----------------------------------------------------------------------------
(* The exports after flattening.                                           *)

\* no edge of the module graph lies on a cycle
Acyclic == AcyclicEdges = DOMAIN module_graph.edges

ExportAllEdges == {i \in DOMAIN module_graph.edges : module_graph.edges[i].kind = "ExportAll"}

\* the exports of R hold every name that the module E, or a module that E
\* re-exports whole through any number of `export *`, exports itself, with
\* the mark that module gave it
HoldsExpanded(R, E) ==
  \A F \in StarClosure({E}) \cap DOMAIN id_to_module :
     \A j \in DOMAIN id_to_module[F].local_exports :
        LET export == id_to_module[F].local_exports[j]
        IN  export.kind # "All" =>
              /\ export.exported_name \in DOMAIN id_to_module[R].exports
              /\ id_to_module[R].exports[export.exported_name].mark = export.mark

\* C24 (as claimed): after link_export_all on an acyclic graph, for every
\* ExportAll edge R -> E the exports of R hold every name of the fully
\* expanded exports of E, with the mark of the module that exports it.
C24_Claim ==
  (AfterFlatten /\ Acyclic) =>
     \A i \in ExportAllEdges :
        HoldsExpanded(get_module_id_by_index(module_graph, module_graph.edges[i].from),
                      get_module_id_by_index(module_graph, module_graph.edges[i].to))

\* C24 (amended): the same for every ExportAll edge R -> E whose target E is
\* in the sorted list, the modules that edges lead to from the entry.
C24_SortedExpanded ==
  (AfterFlatten /\ Acyclic) =>
     \A i \in ExportAllEdges :
        module_graph.edges[i].to \in Range(module_graph.sorted_modules) =>
           HoldsExpanded(get_module_id_by_index(module_graph, module_graph.edges[i].from),
                         get_module_id_by_index(module_graph, module_graph.edges[i].to))

\* flattening has ended on a chain R `export *` E `export *` F, and R holds
\* a name that F exports itself
C24_Witness ==
  /\ AfterFlatten
  /\ Acyclic
  /\ \E i, j \in ExportAllEdges :
       /\ module_graph.edges[i].to = module_graph.edges[j].from
       /\ module_graph.edges[j].to \in Range(module_graph.sorted_modules)
       /\ LET R == get_module_id_by_index(module_graph, module_graph.edges[i].from)
              F == get_module_id_by_index(module_graph, module_graph.edges[j].to)
          IN  \E k \in DOMAIN id_to_module[F].local_exports :
                 /\ id_to_module[F].local_exports[k].kind = "Name"
                 /\ id_to_module[F].local_exports[k].exported_name
                      \in DOMAIN id_to_module[R].exports
                 /\ id_to_module[R].exports[id_to_module[F].local_exports[k].exported_name].mark
                      = id_to_module[F].local_exports[k].mark

----------------------------------------------------------------------------
(* ModuleGraph::add_module.                                                *)

\* C25 (as claimed): two calls of add_module with the same module id
\* return the same index, and the graph holds one node for that id.
C25_Claim ==
  /\ \A i, j \in DOMAIN added :
        added[i].module_id = added[j].module_id =>
           added[i].module_index = added[j].module_index
  /\ \A i \in DOMAIN added : Count(module_graph.nodes, added[i].module_id) = 1

----------------------------------------------------------------------------
(* The edges of the module graph.                                          *)

EdgesFrom(id, kinds) ==
  {i \in DOMAIN module_graph.edges :
     /\ get_module_id_by_index(module_graph, module_graph.edges[i].from) = id
     /\ module_graph.edges[i].kind \in kinds}

HasEdge(id, to, kind, index) ==
  \E i \in EdgesFrom(id, {kind}) :
     /\ get_module_id_by_index(module_graph, module_graph.edges[i].to) = to
     /\ module_graph.edges[i].index = index

SourceBearing(module) ==
  {j \in DOMAIN module.local_exports : module.local_exports[j].src # NoSrc}

\* C26 (as claimed): the graph holds, for each analyzed module, one Import
\* edge per entry of its imports and one export edge per local export
\* that has a source, and each edge carries the import index of the
\* statement of its entry, so that every importing statement has an edge
\* of its own.
C26_Claim ==
  AfterSort =>
    \A id \in DOMAIN id_to_module :
       LET module == id_to_module[id]
       IN  /\ Cardinality(EdgesFrom(id, {"Import"})) = Cardinality(DOMAIN module.imports)
           /\ \A n \in DOMAIN module.imports :
                 HasEdge(id, module.src_to_resolved_id[module.imports[n].src], "Import",
                         module.imports[n].index)
           /\ Cardinality(EdgesFrom(id, {"ExportNamed", "ExportAll", "ExportNamespace"}))
                = Cardinality(SourceBearing(module))
           /\ \A j \in SourceBearing(module) :
                 HasEdge(id, module.src_to_resolved_id[module.local_exports[j].src],
                         EdgeKindOf(module.local_exports[j]), module.local_exports[j].index)

----------------------------------------------------------------------------
(* Two runs over the same files.                                           *)

\* the sorted list as module ids
SortedIds(g, sorted) == [i \in DOMAIN sorted |-> get_module_id_by_index(g, sorted[i])]

\* the sorted list of the run of a single worker over the files fs
SortedAlone(fs) ==
  LET gen == generate_alone(fs, CHOOSE prio \in Orderings(DOMAIN fs) : TRUE,
                            <<resolved_entry>>, {}, NewSymbolBox,
                            DriverState(EmptyMap, add_module(NewModuleGraph, resolved_entry),
                                        1, <<>>))
  IN  SortedIds(gen.d.module_graph,
                sort_modules(gen.d.module_graph,
                             [NewSort EXCEPT !.stack = <<gen.d.entry_module_index>>]))

\* C27 (as claimed): the sorted list of a run holds the modules in the
\* order in which any other run over the same files has them, here the
\* run of a single worker.
C27_Claim ==
  AfterSort => SortedIds(module_graph, module_graph.sorted_modules) = SortedAlone(files)

----------------------------------------------------------------------------
(* The analysis of one file (AnalyzeSpec).                                 *)

\* the statements visited so far that are declarations, exported or not
DeclItems ==
  {k \in DOMAIN analyzer.statement_context : files[Index][k].kind \in {"Decl", "ExportDecl"}}

\* the analyzer as it is when statement k of the file is reached
AnalyzerBefore(k) == analyze(SubSeq(files[Index], 1, k - 1), 1)

\* C28: after the analysis of a module whose statements were generated, the
\* marks of its Decl statements are pairwise distinct and each is the mark
\* that the top-level scope binds to the declaration's name, also for an
\* interface with type parameters and for the second declaration of an
\* interface (declaration merging).
C28_Claim ==
  generated.done /\ generated.ok =>
    /\ \A k \in DeclItems :
         /\ files[Index][k].name \in DOMAIN analyzer.defs
         /\ analyzer.defs[files[Index][k].name] = generated.statements[k].mark
    /\ \A k, l \in DeclItems :
         generated.statements[k].mark = generated.statements[l].mark => k = l

\* C29: every top-level declaration of every kind, exported or not, has a
\* fresh mark in its statement context, and generate_statements_from_ctxt
\* does not fail on a missing mark.
C29_Claim ==
  /\ \A k \in DeclItems : analyzer.statement_context[k].mark # NoMark
  /\ \A k, l \in DeclItems :
       analyzer.statement_context[k].mark = analyzer.statement_context[l].mark => k = l
  /\ generated.done => generated.ok

\* C30: for every top-level declaration, each identifier referred to in its
\* types (property types, array elements, union and intersection members,
\* tuple members, extends clauses) that a declaration or an import binding
\* of the module resolves when the statement is reached has its mark in the
\* reads of the statement.
C30_Claim ==
  ~analyzer.panicked =>
    \A k \in DeclItems :
      \A name \in Range(visited_names(files[Index][k], AllPlaces))
                    \ Range(files[Index][k].type_params) :
        LET mark == get_mark_by_name(AnalyzerBefore(k), name)
        IN  mark # NoMark => mark \in analyzer.statement_context[k].reads

====
